---- MODULE Spec2Model ----
(***************************************************************************)
(* Verification model of bsp-pathfinding: BSP tree construction, portal    *)
(* generation, the portal store, point location and the portal-graph A*    *)
(* search behind NavigationContext.                                        *)
(*                                                                         *)
(* Numbers.  An f32 is the record [neg, exp, man] standing for             *)
(* (-1)^neg * man * 2^exp: man has 24 bits with the leading bit set for a  *)
(* normal number, exp = ExpMin for zero and the subnormal numbers (man     *)
(* below 2^23), exp = ExpInf for the infinities and                        *)
(* exp = ExpNaN for NaN.  +, -, *, /, sqrt round to the nearest f32, ties  *)
(* to even, as the hardware does.  A Vec2 is [x, y].                       *)
(* NodeIndex is a position in the node slab, 0 = null.                     *)
(***************************************************************************)
EXTENDS Integers, Sequences, FiniteSets, TLC

NullIndex == 0
\* Option<T>: None is the empty sequence, Some(x) is <<x>>
None == <<>>
Some(x) == <<x>>

\* y once x is worked out, as in `let x = ...; y`
Having(x, y) == IF x = x THEN y ELSE y

----------------------------------------------------------------------------
(* f32: IEEE 754 binary32, as the program computes on x86-64                *)
(* (round to nearest, ties to even; no fused multiply-add).                 *)

\* the exponent of the last bit of the smallest f32, 2^-149
ExpMin == -(126 + 23)
\* markers in the place of an exponent
ExpInf == 128 - 23
ExpNaN == ExpInf + 1
\* the hidden bit of a normal number and the first number past 24 bits
Hidden == 2 ^ 23
Full == 2 ^ 24

Float(neg, exp, man) == [neg |-> neg, exp |-> exp, man |-> man]
NaN == Float(FALSE, ExpNaN, 0)
Inf(neg) == Float(neg, ExpInf, Hidden)
Zero(neg) == Float(neg, ExpMin, 0)

\* f32::is_nan, f32::is_infinite, f32::is_finite
IsNaN(x) == x.exp = ExpNaN
IsInf(x) == x.exp = ExpInf
IsFinite(x) == x.exp < ExpInf
IsZero(x) == x.man = 0

\* the values of type f32, each written in one way only
IsF32(x) ==
    /\ DOMAIN x = {"neg", "exp", "man"}
    /\ x.neg \in BOOLEAN
    /\ \/ x = NaN
       \/ x = Inf(x.neg)
       \/ x.exp = ExpMin /\ x.man \in 0..(Full - 1)
       \/ x.exp \in (ExpMin + 1)..(ExpInf - 1) /\ x.man \in Hidden..(Full - 1)

Max(a, b) == IF a >= b THEN a ELSE b
Min(a, b) == IF a <= b THEN a ELSE b

\* q * 2^e with q of 24 bits at most, or of 25 after a carry
Carry(neg, q, e) ==
    IF q = 0 THEN Zero(neg)
    ELSE IF q = Full THEN (IF e + 1 >= ExpInf THEN Inf(neg) ELSE Float(neg, e + 1, Hidden))
    ELSE IF e >= ExpInf THEN Inf(neg) ELSE Float(neg, e, q)

\* the number of bits of m, 0 <= m < 2^31
Bits4(m) == IF m >= 8 THEN 4 ELSE IF m >= 4 THEN 3 ELSE IF m >= 2 THEN 2 ELSE m
Bits8(m) == IF m >= 16 THEN 4 + Bits4(m \div 16) ELSE Bits4(m)
Bits16(m) == IF m >= 256 THEN 8 + Bits8(m \div 256) ELSE Bits8(m)
BitLen(m) == IF m >= 65536 THEN 16 + Bits16(m \div 65536) ELSE Bits16(m)

\* m * 2^e with m over one bit more than the mantissa: the last bit goes,
\* to the nearest, ties to even
Rounded(neg, m, e, sticky) ==
    Carry(neg, (m \div 2)
               + (IF m % 2 = 1 /\ (sticky \/ (m \div 2) % 2 = 1) THEN 1 ELSE 0),
          e + 1)

\* s bits dropped from m, s > 0
Dropped(neg, m, e, sticky, s) ==
    IF s >= 31 THEN Zero(neg)
    ELSE Rounded(neg, m \div 2 ^ s, e + s, sticky \/ m % 2 ^ s # 0)

\* u zero bits put under m, u >= 0
Raised(neg, m, e, sticky, u) == Rounded(neg, m * 2 ^ u, e - u, sticky)

\* the f32 nearest to m * 2^e, 0 <= m < 2^31, ties to even; sticky: the exact
\* value is above m * 2^e by less than 2^e (only given with m of 25 bits or
\* more).  Bits are dropped or zero bits put under m until m is the mantissa
\* over one more bit, the mantissa of a subnormal number standing at ExpMin
PackBits(neg, m, e, sticky, n) ==
    IF n > 25 \/ e + 1 < ExpMin
    THEN Dropped(neg, m, e, sticky, Max(n - 25, ExpMin - 1 - e))
    ELSE Raised(neg, m, e, sticky, Max(0, Min(25 - n, e + 1 - ExpMin)))
Pack(neg, m, e, sticky) ==
    IF m = 0 THEN Zero(neg) ELSE PackBits(neg, m, e, sticky, BitLen(m))

\* a finite non-zero value with its mantissa brought up to 24 bits
Raise(x, u) == Float(x.neg, x.exp - u, x.man * 2 ^ u)
Normal(x) == IF x.man >= Hidden THEN x ELSE Raise(x, 24 - BitLen(x.man))

\* i32 as f32
FromInt(n) ==
    IF n < -2147483647 THEN Float(TRUE, 8, Hidden)
    ELSE Pack(n < 0, IF n < 0 THEN -n ELSE n, 0, FALSE)

\* -x, f32::abs
Neg(x) == IF IsNaN(x) THEN x ELSE [x EXCEPT !.neg = ~x.neg]
Abs(x) == IF IsNaN(x) THEN x ELSE [x EXCEPT !.neg = FALSE]

\* f32::to_bits without the sign, and with the sign as the sign of the number
Mag(x) == (x.exp - ExpMin) * Hidden + x.man
Ord(x) == IF x.neg THEN -Mag(x) ELSE Mag(x)

\* <, ==, <=, >, >= of f32: false on NaN, -0.0 == 0.0
Lt(a, b) == ~IsNaN(a) /\ ~IsNaN(b) /\ Ord(a) < Ord(b)
Eq(a, b) == ~IsNaN(a) /\ ~IsNaN(b) /\ Ord(a) = Ord(b)
Le(a, b) == ~IsNaN(a) /\ ~IsNaN(b) /\ Ord(a) <= Ord(b)
Gt(a, b) == Lt(b, a)
Ge(a, b) == Le(b, a)

\* a and b finite, |a| >= |b|: b's mantissa under two more bits is q with
\* lost left over in the unit of a's; a zero sum has the sign both share
AddPacked(a, neg, m, lost) ==
    Pack(IF m = 0 /\ ~lost THEN neg ELSE a.neg, m, a.exp - 2, lost)
AddAligned(a, b, q, lost) ==
    AddPacked(a, a.neg /\ b.neg,
              IF a.neg = b.neg THEN a.man * 4 + q
              ELSE a.man * 4 - q - (IF lost THEN 1 ELSE 0),
              lost)
AddShifted(a, b, unit) ==
    AddAligned(a, b, (b.man * 4) \div unit, (b.man * 4) % unit # 0)
AddOrdered(a, b) == AddShifted(a, b, 2 ^ Min(a.exp - b.exp, 27))
\* a + b, a - b
Add(a, b) ==
    IF IsNaN(a) \/ IsNaN(b) \/ (IsInf(a) /\ IsInf(b) /\ a.neg # b.neg) THEN NaN
    ELSE IF IsInf(a) THEN a
    ELSE IF IsInf(b) THEN b
    ELSE AddOrdered(IF Mag(a) < Mag(b) THEN b ELSE a, IF Mag(a) < Mag(b) THEN a ELSE b)
Sub(a, b) == Add(a, Neg(b))

\* the 48-bit product of two 24-bit mantissas, from their 12-bit halves
Cross(ah, al, bh, bl) == ah * bl + al * bh
Low(al, bl, cross) == al * bl + (cross % 4096) * 4096
High(ah, bh, cross, low) == ah * bh + (cross \div 4096) + (low \div Full)
MulPacked(neg, e, high, low) ==
    Pack(neg, high * 4 + (low \div 2 ^ 22), e + 22, low % 2 ^ 22 # 0)
MulLow(neg, e, ah, bh, cross, low) == MulPacked(neg, e, High(ah, bh, cross, low), low % Full)
MulCross(neg, e, ah, al, bh, bl, cross) == MulLow(neg, e, ah, bh, cross, Low(al, bl, cross))
MulHalves(neg, e, ah, al, bh, bl) == MulCross(neg, e, ah, al, bh, bl, Cross(ah, al, bh, bl))
MulNormal(neg, a, b) ==
    MulHalves(neg, a.exp + b.exp, a.man \div 4096, a.man % 4096, b.man \div 4096, b.man % 4096)
\* a * b
Mul(a, b) ==
    IF IsNaN(a) \/ IsNaN(b) THEN NaN
    ELSE IF IsInf(a) \/ IsInf(b) THEN (IF IsZero(a) \/ IsZero(b) THEN NaN ELSE Inf(a.neg # b.neg))
    ELSE IF IsZero(a) \/ IsZero(b) THEN Zero(a.neg # b.neg)
    ELSE MulNormal(a.neg # b.neg, Normal(a), Normal(b))

\* long division, seven bits at a step and n steps: <<quotient, remainder>>
RECURSIVE DivSteps(_, _, _, _)
DivSteps(q, r, d, n) ==
    IF n = 0 THEN <<q, r>>
    ELSE DivSteps(q * 128 + ((r * 128) \div d), (r * 128) % d, d, n - 1)
DivPacked(neg, e, qr) == Pack(neg, qr[1], e - 28, qr[2] # 0)
DivNormal(neg, a, b) ==
    DivPacked(neg, a.exp - b.exp, DivSteps(a.man \div b.man, a.man % b.man, b.man, 4))
\* a / b
Div(a, b) ==
    IF IsNaN(a) \/ IsNaN(b) \/ (IsInf(a) /\ IsInf(b)) \/ (IsZero(a) /\ IsZero(b)) THEN NaN
    ELSE IF IsInf(a) \/ IsZero(b) THEN Inf(a.neg # b.neg)
    ELSE IF IsInf(b) \/ IsZero(a) THEN Zero(a.neg # b.neg)
    ELSE DivNormal(a.neg # b.neg, Normal(a), Normal(b))

\* the integer square root of m * 2^26, m < 2^26, two bits of the radicand
\* and one of the root at each of the 26 turns, rr being <<root, remainder>>
RootBit(rr, r) ==
    IF r >= 4 * rr[1] + 1 THEN <<2 * rr[1] + 1, r - (4 * rr[1] + 1)>>
    ELSE <<2 * rr[1], r>>
RootTurn(m, i, rr) ==
    RootBit(rr, rr[2] * 4 + (IF i < 13 THEN (m \div 4 ^ (12 - i)) % 4 ELSE 0))
RECURSIVE Root(_, _, _)
Root(m, i, rr) ==
    IF i = 26 \/ rr[1] < 0 THEN rr
    ELSE Root(m, i + 2, RootTurn(m, i + 1, RootTurn(m, i, rr)))
SqrtPacked(e, sr) == Pack(FALSE, sr[1], e, sr[2] # 0)
SqrtEven(m, e) == SqrtPacked((e - 26) \div 2, Root(m, 0, <<0, 0>>))
SqrtNormal(a) ==
    IF a.exp % 2 = 0 THEN SqrtEven(a.man * 4, a.exp - 2) ELSE SqrtEven(a.man * 2, a.exp - 1)
\* f32::sqrt
Sqrt(a) ==
    IF IsNaN(a) \/ IsZero(a) THEN a
    ELSE IF a.neg THEN NaN
    ELSE IF IsInf(a) THEN a
    ELSE SqrtNormal(Normal(a))

\* f32::min, f32::max: the other operand when one is NaN
MinF(a, b) == IF IsNaN(a) THEN b ELSE IF IsNaN(b) THEN a ELSE IF Lt(b, a) THEN b ELSE a
MaxF(a, b) == IF IsNaN(a) THEN b ELSE IF IsNaN(b) THEN a ELSE IF Lt(a, b) THEN b ELSE a

\* f32::round: to the nearest integer, halves away from zero
RoundBelowOne(x, k) ==
    IF k > 24 THEN Zero(x.neg)
    ELSE Pack(x.neg, (x.man \div 2 ^ k) + (IF x.man % 2 ^ k >= 2 ^ (k - 1) THEN 1 ELSE 0), 0, FALSE)
Round(x) == IF ~IsFinite(x) \/ x.exp >= 0 THEN x ELSE RoundBelowOne(x, -x.exp)

\* `x as i32`: towards zero, NaN is 0, out of range is the nearest end
Truncated(x) ==
    IF x.exp >= 0 THEN x.man * 2 ^ x.exp
    ELSE IF -x.exp > 24 THEN 0 ELSE x.man \div 2 ^ (-x.exp)
ToI32(x) ==
    IF IsNaN(x) THEN 0
    ELSE IF x.exp >= 8 THEN (IF x.neg THEN -2147483647 - 1 ELSE 2147483647)
    ELSE IF x.neg THEN -Truncated(x) ELSE Truncated(x)

One == Float(FALSE, -23, Hidden)
Two == Float(FALSE, -22, Hidden)
\* the f32 nearest to n / d, for integers below 2^24
Ratio(n, d) == Div(FromInt(n), FromInt(d))
----------------------------------------------------------------------------
(* glam::Vec2: two f32, every operation component by component *)

Vec2(x, y) == [x |-> x, y |-> y]
\* Vec2::ZERO
ZERO == Vec2(Zero(FALSE), Zero(FALSE))
\* Vec2::new of two whole numbers, of two quotients of whole numbers
At(x, y) == Vec2(FromInt(x), FromInt(y))
AtRatio(x, y, d) == Vec2(Ratio(x, d), Ratio(y, d))

VAdd(a, b) == Vec2(Add(a.x, b.x), Add(a.y, b.y))
VSub(a, b) == Vec2(Sub(a.x, b.x), Sub(a.y, b.y))
VNeg(a) == Vec2(Neg(a.x), Neg(a.y))
\* a * k and a / k for an f32 k
VMul(a, k) == Vec2(Mul(a.x, k), Mul(a.y, k))
VDiv(a, k) == Vec2(Div(a.x, k), Div(a.y, k))
\* Vec2::min, Vec2::max
VMin(a, b) == Vec2(MinF(a.x, b.x), MinF(a.y, b.y))
VMax(a, b) == Vec2(MaxF(a.x, b.x), MaxF(a.y, b.y))
\* Vec2's ==: the components are equal as f32, a NaN being equal to nothing
VEq(a, b) == Eq(a.x, b.x) /\ Eq(a.y, b.y)
\* Vec2::is_finite
VIsFinite(a) == IsFinite(a.x) /\ IsFinite(a.y)

\* Vec2::dot: (self.x * rhs.x) + (self.y * rhs.y)
Dot(a, b) == Add(Mul(a.x, b.x), Mul(a.y, b.y))
\* Vec2::perp and Vec2::perp_dot
Perp(a) == Vec2(Neg(a.y), a.x)
PerpDot(a, b) == Sub(Mul(a.x, b.y), Mul(a.y, b.x))
LengthSquared(a) == Dot(a, a)
Length(a) == Sqrt(Dot(a, a))
Distance(a, b) == Length(VSub(a, b))
DistanceSquared(a, b) == LengthSquared(VSub(a, b))

\* Vec2::normalize: self * self.length().recip()
Normalize(a) == VMul(a, Div(One, Length(a)))

\* Vec2::normalize_or_zero, rcp being self.length_recip()
ScaledOrZero(a, rcp) == IF IsFinite(rcp) /\ Gt(rcp, Zero(FALSE)) THEN VMul(a, rcp) ELSE ZERO
NormalizeOrZero(a) == ScaledOrZero(a, Div(One, Length(a)))

\* Vec2::is_normalized: (self.length_squared() - 1.0).abs() <= 1e-4
IsNormalized(a) == Le(Abs(Sub(LengthSquared(a), One)), Ratio(1, 10000))

----------------------------------------------------------------------------
(* lib.rs *)

\* pub const TOLERANCE: f32 = 0.1, the f32 nearest to 1 / 10: 13421773 * 2^-27
TOLERANCE == Float(FALSE, -27, 13421773)

----------------------------------------------------------------------------
(* shape.rs: Face and Side *)

\* Vec2::new(dir.y, -dir.x)
Clockwise(dir) == Vec2(dir.y, Neg(dir.x))

\* Face::dir
FaceDir(f) == Normalize(VSub(f.vertices[2], f.vertices[1]))

\* Face::new
NewFace(vertices) ==
    [vertices |-> vertices,
     normal |-> Clockwise(Normalize(VSub(vertices[2], vertices[1])))]

\* Face::length
FaceLength(f) == Length(VSub(f.vertices[1], f.vertices[2]))

\* Face::midpoint
Midpoint(f) == VDiv(VAdd(f.vertices[1], f.vertices[2]), Two)

\* the Side of the distances a and b of two vertices from a plane
SideBy(a, b) ==
    IF Lt(Abs(a), TOLERANCE) /\ Lt(Abs(b), TOLERANCE) THEN "Coplanar"
    ELSE IF Ge(a, Neg(TOLERANCE)) /\ Ge(b, Neg(TOLERANCE)) THEN "Front"
    ELSE IF Le(a, TOLERANCE) /\ Le(b, TOLERANCE) THEN "Back"
    ELSE "Intersecting"
Side(a, b) == Having(a, SideBy(a, b))

\* Face::side_of
SideOf(f, p, normal) ==
    Side(Dot(VSub(f.vertices[1], p), normal), Dot(VSub(f.vertices[2], p), normal))

\* the split handing the halves back in the order of the vertices
FaceSplitInOrder(f, p, normal) ==
    <<NewFace(<<f.vertices[1], p>>), NewFace(<<p, f.vertices[2]>>)>>

\* Face::split
FaceSplit(f, p, normal) ==
    IF Ge(Dot(VSub(f.vertices[1], p), normal), Neg(TOLERANCE))
    THEN <<NewFace(<<f.vertices[1], p>>), NewFace(<<p, f.vertices[2]>>)>>
    ELSE <<NewFace(<<p, f.vertices[2]>>), NewFace(<<f.vertices[1], p>>)>>

\* (a < -TOLERANCE && b > TOLERANCE) || (b < -TOLERANCE && a > TOLERANCE)
Straddles(a, b) ==
    \/ Lt(a, Neg(TOLERANCE)) /\ Gt(b, TOLERANCE)
    \/ Lt(b, Neg(TOLERANCE)) /\ Gt(a, TOLERANCE)

\* Face::adjacent, p being other.midpoint()
AdjacentAbout(f, other, p) ==
    Straddles(Dot(VSub(f.vertices[1], p), other.normal),
              Dot(VSub(f.vertices[2], p), other.normal))
Adjacent(f, other) == AdjacentAbout(f, other, Midpoint(other))

\* (q - a).min(b - p) > TOLERANCE
OverlapAbove(p, q, a, b) == Gt(MinF(Sub(q, a), Sub(b, p)), TOLERANCE)

\* Face::overlaps, dir being self.dir()
OverlapsAlong(f, other, dir) ==
    IF Gt(Dot(dir, FaceDir(other)), Zero(FALSE))
    THEN OverlapAbove(Dot(f.vertices[1], dir), Dot(f.vertices[2], dir),
                      Dot(other.vertices[1], dir), Dot(other.vertices[2], dir))
    ELSE OverlapAbove(Dot(f.vertices[1], dir), Dot(f.vertices[2], dir),
                      Dot(other.vertices[2], dir), Dot(other.vertices[1], dir))
Overlaps(f, other) == OverlapsAlong(f, other, FaceDir(f))

\* Face::contains_point, d being (p - self.vertices[0]).dot(dir)
ContainsAt(f, d) == Gt(d, Neg(TOLERANCE)) /\ Lt(d, Add(FaceLength(f), TOLERANCE))
ContainsPoint(f, p) == ContainsAt(f, Dot(VSub(p, f.vertices[1]), FaceDir(f)))

----------------------------------------------------------------------------
(* util.rs *)

\* Intersect::new
NewIntersect(point, distance) == [distance |-> distance, point |-> point]

\* face_intersect_dir, l being the distance along dir
IntersectAt(a, dir, l) == NewIntersect(VAdd(a, VMul(dir, l)), l)
FaceIntersectDir(a, dir, p, normal) ==
    IntersectAt(a, dir, Div(Dot(VSub(p, a), normal), Dot(dir, normal)))

\* face_intersect
FaceIntersect(a0, a1, p, normal) == FaceIntersectDir(a0, VSub(a1, a0), p, normal)
----------------------------------------------------------------------------
(* tree/node.rs: BSPNode::from_faces *)

\* if distance > 0.0 && distance > max_val
WidenUp(acc, v, distance) ==
    IF Gt(distance, Zero(FALSE)) /\ Gt(distance, acc.max_val)
    THEN [acc EXCEPT !.max = v, !.max_val = distance] ELSE acc

\* if distance < 0.0 && distance < min_val
WidenDown(acc, v, distance) ==
    IF Lt(distance, Zero(FALSE)) /\ Lt(distance, acc.min_val)
    THEN [acc EXCEPT !.min = v, !.min_val = distance] ELSE acc

\* the body of `for v in face.vertices`, distance being (v - p).dot(dir)
Widened(acc, v, distance) == WidenDown(WidenUp(acc, v, distance), v, distance)

\* one vertex of a coplanar face widens the extent [min, max] of the plane's face
WidenExtent(acc, v, p, dir) == Widened(acc, v, Dot(VSub(v, p), dir))

\* the flag update with the sign of the test turned
DoublePlanarFlagParallel(flag, face, current) ==
    flag \/ Gt(Dot(face.normal, current.normal), Zero(FALSE))

\* double_planar = double_planar || face.normal.dot(current.normal) < 0.0
DoublePlanarFlag(flag, face, current) ==
    flag \/ Lt(Dot(face.normal, current.normal), Zero(FALSE))

\* the Coplanar arm
ClassifyCoplanar(acc, face, current, p, dir) ==
    [WidenExtent(WidenExtent(acc, face.vertices[1], p, dir), face.vertices[2], p, dir)
        EXCEPT !.double_planar = DoublePlanarFlag(@, face, current)]

\* the four assertions on the halves a and b of a split face
SplitAsserts(face, a, b, p, normal) ==
    /\ SideOf(a, p, normal) = "Front"
    /\ SideOf(b, p, normal) = "Back"
    /\ Gt(Dot(a.normal, face.normal), Zero(FALSE))
    /\ Gt(Dot(b.normal, face.normal), Zero(FALSE))

\* the Intersecting arm from the halves a and b on; the lists are left as
\* they are when an assertion fails
ClassifyHalves(acc, face, a, b, p, normal) ==
    IF SplitAsserts(face, a, b, p, normal)
    THEN [acc EXCEPT !.front = Append(@, a),
                     !.back = Append(@, b),
                     !.splits = Append(@, [face |-> face, a |-> a, b |-> b])]
    ELSE [acc EXCEPT !.splits = Append(@, [face |-> face, a |-> a, b |-> b]),
                     !.ok = FALSE]

\* the Intersecting arm filing the front half twice
ClassifyHalvesTwice(acc, face, a, b, p, normal) ==
    [acc EXCEPT !.front = Append(Append(@, a), a),
                !.back = Append(@, b),
                !.splits = Append(@, [face |-> face, a |-> a, b |-> b])]

\* let [a, b] = face.split(intersect.point, normal)
SplitAt(face, p, normal) ==
    FaceSplit(face, FaceIntersect(face.vertices[1], face.vertices[2], p, normal).point,
              normal)

\* the Intersecting arm
ClassifySplit(acc, face, ab, p, normal) == ClassifyHalves(acc, face, ab[1], ab[2], p, normal)
ClassifySplitTwice(acc, face, ab, p, normal) ==
    ClassifyHalvesTwice(acc, face, ab[1], ab[2], p, normal)

\* match side
ClassifyBySide(acc, face, current, side) ==
    CASE side = "Front" -> [acc EXCEPT !.front = Append(@, face)]
      [] side = "Back" -> [acc EXCEPT !.back = Append(@, face)]
      [] side = "Coplanar" ->
            ClassifyCoplanar(acc, face, current, current.vertices[1], FaceDir(current))
      [] OTHER ->
            ClassifySplit(acc, face, SplitAt(face, current.vertices[1], current.normal),
                          current.vertices[1], current.normal)

\* the match filing the front half of a split face twice
ClassifyBySideTwice(acc, face, current, side) ==
    IF side = "Intersecting"
    THEN ClassifySplitTwice(acc, face, SplitAt(face, current.vertices[1], current.normal),
                            current.vertices[1], current.normal)
    ELSE ClassifyBySide(acc, face, current, side)

\* the Intersecting arm filing the front half in the back list and the back
\* half in the front list
ClassifySplitMisfiled(acc, face, ab, p, normal) ==
    [acc EXCEPT !.front = Append(@, ab[2]),
                !.back = Append(@, ab[1]),
                !.splits = Append(@, [face |-> face, a |-> ab[1], b |-> ab[2]])]

\* the match filing the halves of a split face in each other's list
ClassifyBySideMisfiled(acc, face, current, side) ==
    IF side = "Intersecting"
    THEN ClassifySplitMisfiled(acc, face,
                               SplitAt(face, current.vertices[1], current.normal),
                               current.vertices[1], current.normal)
    ELSE ClassifyBySide(acc, face, current, side)

\* the loop body filing the front half of a split face twice
ClassifyFaceTwice(acc, face, current) ==
    ClassifyBySideTwice(acc, face, current,
                        SideOf(face, current.vertices[1], current.normal))

\* the loop body filing the halves of a split face in each other's list
ClassifyFaceMisfiled(acc, face, current) ==
    ClassifyBySideMisfiled(acc, face, current,
                           SideOf(face, current.vertices[1], current.normal))

\* the body of `for face in faces`
ClassifyFace(acc, face, current) ==
    ClassifyBySide(acc, face, current, SideOf(face, current.vertices[1], current.normal))

RECURSIVE ClassifyAll(_, _, _, _)
ClassifyAll(acc, faces, i, current) ==
    IF i > Len(faces) \/ ~acc.ok THEN acc
    ELSE ClassifyAll(ClassifyFace(acc, faces[i], current), faces, i + 1, current)

\* a slice of one face taken for an empty one
NoFirstOrOnlyOne(faces) == Len(faces) <= 1

\* faces.split_first() is None
NoFirst(faces) == Len(faces) = 0

\* what from_faces holds before its loop, dir being current.dir()
BeforeLoop(current, dir) ==
    [front |-> <<>>, back |-> <<>>,
     min |-> current.vertices[1],
     min_val |-> Dot(VSub(current.vertices[1], current.vertices[1]), dir),
     max |-> current.vertices[2],
     max_val |-> Dot(VSub(current.vertices[2], current.vertices[1]), dir),
     double_planar |-> FALSE, splits |-> <<>>, ok |-> TRUE]

\* assert!(current.normal.is_normalized());
\* assert!(Face::new([min, max]).normal.dot(normal) > 1.0 - TOLERANCE)
NodeAsserts(current, face) ==
    /\ IsNormalized(current.normal)
    /\ Gt(Dot(face.normal, current.normal), Sub(One, TOLERANCE))

\* the BSPNode of from_faces.  The fields input and splits are history: the
\* slice the call received and the faces it split
NewNode(faces, depth, acc, front, back, face) ==
    [origin |-> Midpoint(Head(faces)),
     face |-> face,
     normal |-> Head(faces).normal,
     double_planar |-> acc.double_planar,
     front |-> front.index,
     back |-> back.index,
     depth |-> depth,
     input |-> faces,
     splits |-> acc.splits]

\* from_faces left by a failed assertion: the panic unwinds every call
Panicked(nodes) == [nodes |-> nodes, index |-> NullIndex, ok |-> FALSE]

\* from_faces from the two recursive calls on, face being Face::new([min, max])
InsertNode(faces, depth, acc, front, back, face) ==
    IF ~back.ok \/ ~NodeAsserts(Head(faces), face) THEN Panicked(back.nodes)
    ELSE [nodes |-> Append(back.nodes, NewNode(faces, depth, acc, front, back, face)),
          index |-> Len(back.nodes) + 1,
          ok |-> TRUE]

RECURSIVE FromFaces(_, _, _)

\* from_faces from the call on the back list on
BuildBack(faces, depth, acc, front) ==
    IF ~front.ok THEN Panicked(front.nodes)
    ELSE InsertNode(faces, depth, acc, front, FromFaces(front.nodes, acc.back, depth + 1),
                    NewFace(<<acc.min, acc.max>>))

\* from_faces from the call on the front list on
BuildFront(nodes, faces, depth, acc) ==
    IF ~acc.ok THEN Panicked(nodes)
    ELSE BuildBack(faces, depth, acc, FromFaces(nodes, acc.front, depth + 1))

\* BSPNode::from_faces.  Returns the slab, the index of the new node (NullIndex
\* for None) and whether every assertion held
FromFaces(nodes, faces, depth) ==
    IF NoFirst(faces) THEN [nodes |-> nodes, index |-> NullIndex, ok |-> TRUE]
    ELSE BuildFront(nodes, faces, depth,
                    ClassifyAll(BeforeLoop(Head(faces), FaceDir(Head(faces))),
                                Tail(faces), 1, Head(faces)))

----------------------------------------------------------------------------
(* tree/mod.rs: BSPTree *)

\* f32::MAX
F32MAX == Float(FALSE, ExpInf - 1, Full - 1)

\* l = l.min(val); r = r.max(val)
BoundsWith(lr, val) == [l |-> VMin(lr.l, val), r |-> VMax(lr.r, val)]

\* the bounds taken over the first vertex of each face alone
RECURSIVE BoundsFirstVertex(_, _, _)
BoundsFirstVertex(faces, i, lr) ==
    IF i > Len(faces) THEN lr
    ELSE Having(lr, BoundsFirstVertex(faces, i + 1, BoundsWith(lr, faces[i].vertices[1])))

\* faces.iter().flatten().for_each: the two vertices of each face in turn
RECURSIVE Bounds(_, _, _)
Bounds(faces, i, lr) ==
    IF i > Len(faces) THEN lr
    ELSE Having(lr,
                Bounds(faces, i + 1,
                       BoundsWith(BoundsWith(lr, faces[i].vertices[1]),
                                  faces[i].vertices[2])))

\* Vec2::new(f32::MAX, f32::MAX) and Vec2::new(f32::MIN, f32::MIN)
NoBounds == [l |-> Vec2(F32MAX, F32MAX), r |-> Vec2(Neg(F32MAX), Neg(F32MAX))]

\* the Option<BSPTree> made of what from_faces returned and the bounds;
\* ok is FALSE when an assertion of from_faces fails (the construction panics)
TreeOf(built, lr) ==
    IF built.index = NullIndex /\ built.ok THEN None
    ELSE Some([nodes |-> built.nodes, root |-> built.index, l |-> lr.l, r |-> lr.r,
               ok |-> built.ok])

\* BSPTree::new / new_inner
NewTree(faces) == TreeOf(FromFaces(<<>>, faces, 0), Bounds(faces, 1, NoBounds))

\* the NodePayload of locate: -node.normal() * dot for a covered point
Payload(index, node, dot, covered) ==
    [index |-> index, covered |-> covered,
     depth |-> IF covered THEN VMul(VNeg(node.normal), dot) ELSE ZERO]

RECURSIVE LocateFromStrict(_, _, _)
\* one turn of the loop sending a point on the plane to the back side
LocateTurnStrict(nodes, index, point, node, dot) ==
    IF (IF Gt(dot, Zero(FALSE)) THEN node.front ELSE node.back) # NullIndex
    THEN LocateFromStrict(nodes, IF Gt(dot, Zero(FALSE)) THEN node.front ELSE node.back,
                          point)
    ELSE Payload(index, node, dot, ~Gt(dot, Zero(FALSE)))

\* locate sending a point on the plane to the back side
LocateFromStrict(nodes, index, point) ==
    LocateTurnStrict(nodes, index, point, nodes[index],
                     Dot(VSub(point, nodes[index].origin), nodes[index].normal))

RECURSIVE LocateFrom(_, _, _)
\* one turn of the loop of locate, dot being rel.dot(node.normal())
LocateTurn(nodes, index, point, node, dot) ==
    IF (IF Ge(dot, Zero(FALSE)) THEN node.front ELSE node.back) # NullIndex
    THEN LocateFrom(nodes, IF Ge(dot, Zero(FALSE)) THEN node.front ELSE node.back, point)
    ELSE Payload(index, node, dot, ~Ge(dot, Zero(FALSE)))

\* BSPTree::locate from the node at index on
LocateFrom(nodes, index, point) ==
    LocateTurn(nodes, index, point, nodes[index],
               Dot(VSub(point, nodes[index].origin), nodes[index].normal))

\* BSPTree::locate
TreeLocate(tree, point) == LocateFrom(tree.nodes, tree.root, point)

\* BSPTree::clipping_planes
ClippingPlanes(tree) ==
    << NewFace(<< Vec2(tree.l.x, tree.r.y), tree.l >>),
       NewFace(<< tree.l, Vec2(tree.r.x, tree.l.y) >>),
       NewFace(<< Vec2(tree.r.x, tree.l.y), tree.r >>),
       NewFace(<< tree.r, Vec2(tree.l.x, tree.r.y) >>) >>
----------------------------------------------------------------------------
(* tree/portals.rs: ClippedFace *)

\* ClippedFace::new
NewClippedFace(vertices, sides, adjacent, src, dst) ==
    [face |-> NewFace(vertices),
     sides |-> sides, adjacent |-> adjacent, src |-> src, dst |-> dst]

\* the two halves of ClippedFace::split, in vertex order, point being
\* intersection.point
HalvesAt(cf, point, sidesA, sidesB) ==
    << NewClippedFace(<<cf.face.vertices[1], point>>, sidesA,
                      <<cf.adjacent[1], FALSE>>, cf.src, cf.dst),
       NewClippedFace(<<point, cf.face.vertices[2]>>, sidesB,
                      <<FALSE, cf.adjacent[2]>>, cf.src, cf.dst) >>

\* let intersection = face_intersect(self.into_tuple(), p, normal)
SplitHalves(cf, p, normal, sidesA, sidesB) ==
    HalvesAt(cf, FaceIntersect(cf.face.vertices[1], cf.face.vertices[2], p, normal).point,
             sidesA, sidesB)

\* the half in front of the plane first, as Face::split orders its halves
FrontFirst(cf, p, normal, halves) ==
    IF Ge(Dot(VSub(cf.face.vertices[1], p), normal), Neg(TOLERANCE))
    THEN halves ELSE <<halves[2], halves[1]>>

\* the tag of the cut end of ClippedFace::split
CutTag(double_planar) == IF double_planar THEN "Back" ELSE "Front"

\* ClippedFace::split(origin, normal, double_planar): both halves are retagged
\* [Front, Front]; the cut end on a double planar plane is tagged Back
ClippedSplit(cf, p, normal, double_planar) ==
    FrontFirst(cf, p, normal,
               SplitHalves(cf, p, normal, <<"Front", CutTag(double_planar)>>,
                           <<CutTag(double_planar), "Front">>))

\* ClippedFace::split_nondestructive: the outer ends keep their tags
ClippedSplitNondestructive(cf, p, normal) ==
    FrontFirst(cf, p, normal,
               SplitHalves(cf, p, normal, <<cf.sides[1], "Front">>, <<"Front", cf.sides[2]>>))

\* Face::contains(sub-face): the sub-face overlaps this wall face
FaceContains(f, cf) == Overlaps(f, cf.face)

----------------------------------------------------------------------------
(* tree/node.rs: BSPNode::clip, clip_new, generate_portals *)

\* let relative_side = if node.double_planar { Side::Back } else { side }
RelativeSide(node, side) == IF node.double_planar THEN "Back" ELSE side

\* a.abs() < TOLERANCE, the same for b
Touches(a) == Lt(Abs(a), TOLERANCE)

\* the tagging of clip, a and b being the distances of the two vertices
TaggedBy(portal, node, side, a, b) ==
    IF Touches(a) THEN [portal EXCEPT !.sides[1] = RelativeSide(node, side)]
    ELSE IF Touches(b) THEN [portal EXCEPT !.sides[2] = RelativeSide(node, side)]
    ELSE portal

\* the portal clip hands to clip_new
Tagged(portal, node, side) ==
    TaggedBy(portal, node, side,
             Dot(VSub(portal.face.vertices[1], node.origin), node.normal),
             Dot(VSub(portal.face.vertices[2], node.origin), node.normal))

\* the terminal arm with the two sides taken for each other
LandAtSwapped(cf, index, root_side) ==
    IF root_side = "Back" THEN [cf EXCEPT !.src = index] ELSE [cf EXCEPT !.dst = index]

\* the terminal arm of clip_new
LandAt(cf, index, root_side) ==
    IF root_side = "Back" THEN [cf EXCEPT !.dst = index] ELSE [cf EXCEPT !.src = index]

\* two lists of clipped faces in a row
Joined(f, b) == [out |-> f.out \o b.out, ok |-> f.ok /\ b.ok]

\* the list of clip_new's Intersecting arm, asserts being its four assertions
JoinedIf(asserts, f, b) == [ok |-> asserts /\ f.ok /\ b.ok, out |-> f.out \o b.out]

RECURSIVE Clip(_, _, _, _), ClipNew(_, _, _, _, _), ClipEach(_, _, _, _)

\* clip from the side of the portal on
ClipTagged(index, nodes, portal, side, root_side) ==
    Having(portal, ClipNew(index, nodes, portal, side, root_side))
ClipSided(index, nodes, portal, side, root_side) ==
    ClipTagged(index, nodes, Tagged(portal, nodes[index], side), side, root_side)

\* BSPNode::clip.  Returns [out: the clipped faces, ok: every assertion held]
Clip(index, nodes, portal, root_side) ==
    ClipSided(index, nodes, portal,
              SideOf(portal.face, nodes[index].origin, nodes[index].normal), root_side)

\* .map(|val| Self::clip(back, nodes, val, Side::Back)).flatten()
ClipEach(index, nodes, portals, root_side) ==
    IF Len(portals) = 0 THEN [out |-> <<>>, ok |-> TRUE]
    ELSE Joined(Clip(index, nodes, Head(portals), root_side),
                ClipEach(index, nodes, Tail(portals), root_side))

\* the list of the (Coplanar, Some(front), Some(back)) arm, f being the clip by
\* the front child and b the clips of its pieces by the back child
Through(f, b) == [ok |-> f.ok /\ b.ok, out |-> b.out]

\* the (Coplanar, Some(front), Some(back)) arm from the clip by the front child on
ClipThrough(node, nodes, f) == Through(f, ClipEach(node.back, nodes, f.out, "Back"))

\* the Intersecting arm from the two halves on
ClipHalves(index, nodes, portal, fb, root_side) ==
    Having(fb,
           JoinedIf(SplitAsserts(portal.face, fb[1].face, fb[2].face,
                                 nodes[index].origin, nodes[index].normal),
                    ClipNew(index, nodes, fb[1], "Front", root_side),
                    ClipNew(index, nodes, fb[2], "Back", root_side)))

\* the Intersecting arm
ClipSplit(index, nodes, node, portal, root_side) ==
    ClipHalves(index, nodes, portal,
               IF Adjacent(node.face, portal.face)
               THEN ClippedSplit(portal, node.origin, node.normal, node.double_planar)
               ELSE ClippedSplitNondestructive(portal, node.origin, node.normal),
               root_side)

\* BSPNode::clip_new: match (side, node.front, node.back)
ClipNew(index, nodes, portal, side, root_side) ==
    CASE side = "Coplanar" /\ nodes[index].front # NullIndex
                           /\ nodes[index].back # NullIndex ->
            ClipThrough(nodes[index], nodes, Clip(nodes[index].front, nodes, portal, "Front"))
      [] side = "Coplanar" /\ nodes[index].front # NullIndex
                           /\ nodes[index].back = NullIndex ->
            Clip(nodes[index].front, nodes, portal, "Front")
      [] side = "Coplanar" /\ nodes[index].front = NullIndex
                           /\ nodes[index].back # NullIndex ->
            Clip(nodes[index].back, nodes, portal, "Back")
      [] side = "Front" /\ nodes[index].front # NullIndex ->
            Clip(nodes[index].front, nodes, portal, root_side)
      [] side = "Back" /\ nodes[index].back # NullIndex ->
            Clip(nodes[index].back, nodes, portal, root_side)
      [] side = "Intersecting" -> ClipSplit(index, nodes, nodes[index], portal, root_side)
      [] OTHER -> [out |-> <<LandAt(portal, index, root_side)>>, ok |-> TRUE]

\* whether the end of the candidate lies within the clipping face that cut it
EndpointAdjacent(val, point) == ContainsPoint(val, point)

\* the side a clipping plane gives to the end it cuts
ClipPlaneSide(node, val) ==
    IF node.double_planar THEN "Back"
    ELSE IF Gt(Dot(VSub(val.vertices[1], node.origin), val.normal), Zero(FALSE))
            \/ ~Adjacent(val, node.face)
         THEN "Front"
         ELSE "Back"

\* if intersect.distance > 0.0 && intersect.distance < max.distance
BoundMax(acc, node, val, i) ==
    IF Gt(i.distance, Zero(FALSE)) /\ Lt(i.distance, acc.max.distance)
    THEN [acc EXCEPT !.max = i, !.max_side = ClipPlaneSide(node, val),
                     !.max_adj = EndpointAdjacent(val, i.point)]
    ELSE acc

\* if intersect.distance < 0.0 && intersect.distance.abs() < min.distance.abs()
BoundMin(acc, node, val, i) ==
    IF Lt(i.distance, Zero(FALSE)) /\ Lt(Abs(i.distance), Abs(acc.min.distance))
    THEN [acc EXCEPT !.min = i, !.min_side = ClipPlaneSide(node, val),
                     !.min_adj = EndpointAdjacent(val, i.point)]
    ELSE acc

\* the closure of clipping_planes.iter().for_each, i being the intersect
BoundByPlane(acc, node, val, i) ==
    IF ~IsFinite(i.distance) THEN acc
    ELSE BoundMin(BoundMax(acc, node, val, i), node, val, i)

\* Intersect::new(Vec2::ZERO, f32::MAX) twice, Side::Coplanar twice
Unbounded ==
    [min |-> NewIntersect(ZERO, F32MAX), min_side |-> "Coplanar",
     max |-> NewIntersect(ZERO, F32MAX), max_side |-> "Coplanar",
     min_adj |-> FALSE, max_adj |-> FALSE]

\* clipping_planes.iter().for_each from plane i on
RECURSIVE BoundByPlanes(_, _, _, _, _)
BoundByPlanes(planes, i, node, dir, acc) ==
    IF i > Len(planes) THEN acc
    ELSE Having(acc,
                BoundByPlanes(planes, i + 1, node, dir,
                              BoundByPlane(acc, node, planes[i],
                                           FaceIntersectDir(node.origin, dir,
                                                            planes[i].vertices[1],
                                                            planes[i].normal))))

\* ClippedFace::new(face.vertices, [max_side, min_side], index, index)
CandidateOf(index, acc) ==
    NewClippedFace(<<acc.max.point, acc.min.point>>, <<acc.max_side, acc.min_side>>,
                   <<acc.max_adj, acc.min_adj>>, index, index)

\* the candidate segment of a node: its line cut by the clipping planes
Candidate(index, nodes, clipping_planes) ==
    CandidateOf(index, BoundByPlanes(clipping_planes, 1, nodes[index],
                                     Clockwise(nodes[index].normal), Unbounded))

\* the filter reduced to its last test
IsPortalUncovered(val, node) == ~FaceContains(node.face, val)

\* the filter of generate_portals
IsPortal(val, node) ==
    /\ val.src # val.dst
    /\ val.sides = <<"Front", "Front">>
    /\ ~FaceContains(node.face, val)

\* what generate_portals of a node leaves in result: the node's own portals,
\* then those of the front subtree, then those of the back subtree.
\* [out: the faces handed to extend, clipped: history of (node, sub-face)
\* before the filter, ok: every assertion held]
Collected(index, nodes, clipped, front, back) ==
    [clipped |-> [i \in 1..Len(clipped.out) |-> [node |-> index, val |-> clipped.out[i]]]
                 \o front.clipped \o back.clipped,
     out |-> SelectSeq(clipped.out, LAMBDA val : IsPortal(val, nodes[index]))
             \o front.out \o back.out,
     ok |-> clipped.ok /\ front.ok /\ back.ok]

NoPortals == [out |-> <<>>, clipped |-> <<>>, ok |-> TRUE]

RECURSIVE GeneratePortals(_, _, _)

\* generate_portals from the candidate on: its clip from the node on, then the
\* recursion into the children with the candidate's face added to the
\* clipping planes
ClipCandidate(index, nodes, clipping_planes, portal) ==
    Having(portal,
           Collected(index, nodes, Clip(index, nodes, portal, "Front"),
                     GeneratePortals(nodes[index].front, nodes,
                                     Append(clipping_planes, portal.face)),
                     GeneratePortals(nodes[index].back, nodes,
                                     Append(clipping_planes, portal.face))))

\* BSPNode::generate_portals, called on the children that are there
GeneratePortals(index, nodes, clipping_planes) ==
    IF index = NullIndex THEN NoPortals
    ELSE ClipCandidate(index, nodes, clipping_planes,
                       Candidate(index, nodes, clipping_planes))

\* BSPTree::generate_portals
TreeGeneratePortals(tree) == GeneratePortals(tree.root, tree.nodes, ClippingPlanes(tree))
----------------------------------------------------------------------------
(* tree/portals.rs: Portals;  tree/portal.rs: Portal, PortalRef *)

\* Portals::new.  inner maps the keys it holds to their lists of PortalRefs;
\* ok is FALSE once a push has panicked
NewPortals == [faces |-> <<>>, inner |-> <<>>, ok |-> TRUE]

\* Portals::get: the PortalRefs of a leaf, in insertion order
PortalsGet(ps, index) == IF index \in DOMAIN ps.inner THEN ps.inner[index] ELSE <<>>

\* a key is a slot and a version of that slot.  The keys of a tree, which
\* never gives a slot up, are its slots 1, 2, 3, ... in their first version:
\* the positive numbers.  The keys of the later versions are the negative
\* numbers, counted along the diagonals of slot and version: -1 is slot 1 in
\* its second version, -2 slot 2 in its second, -3 slot 1 in its third
LaterKey(slot, later) ==
    -(((slot + later - 2) * (slot + later - 1)) \div 2 + later)
KeyDiagonal(m) ==
    CHOOSE w \in 0..m : (w * (w + 1)) \div 2 < m /\ m <= ((w + 1) * (w + 2)) \div 2
KeyVersion(key) ==
    IF key >= 0 THEN 0 ELSE (-key) - (KeyDiagonal(-key) * (KeyDiagonal(-key) + 1)) \div 2
KeySlot(key) == IF key >= 0 THEN key ELSE KeyDiagonal(-key) + 2 - KeyVersion(key)

\* the keys of the map holding the slot of key
SlotHolders(inner, key) == { k \in DOMAIN inner : KeySlot(k) = KeySlot(key) }

\* SecondaryMap::entry(key) is None: the null key has no slot, and a key
\* older than the one holding its slot is refused
NoEntry(inner, key) ==
    \/ key = NullIndex
    \/ \E k \in SlotHolders(inner, key) : KeyVersion(k) > KeyVersion(key)

\* entry(key).expect("Node was removed").or_default().push(ref): the list
\* under key grows; a key newer than the one holding its slot takes the slot
\* over with a list of its own
EntryPush(inner, key, ref) ==
    [k \in ((DOMAIN inner) \ SlotHolders(inner, key)) \cup {key} |->
        IF k = key
        THEN Append(IF k \in DOMAIN inner THEN inner[k] ELSE <<>>, ref)
        ELSE inner[k]]

\* the src entry naming the dst leaf as its src
SrcRefOfDst(portal, face) ==
    [dst |-> portal.dst, src |-> portal.dst, adjacent |-> portal.adjacent,
     normal |-> VNeg(portal.face.normal), face |-> face]

\* the PortalRef stored for the src leaf
SrcRef(portal, face) ==
    [dst |-> portal.dst, src |-> portal.src, adjacent |-> portal.adjacent,
     normal |-> VNeg(portal.face.normal), face |-> face]

\* the dst entry with the normal of the src entry
DstRefSameNormal(portal, face) ==
    [dst |-> portal.src, src |-> portal.dst, adjacent |-> portal.adjacent,
     normal |-> VNeg(portal.face.normal), face |-> face]

\* the PortalRef stored for the dst leaf
DstRef(portal, face) ==
    [dst |-> portal.src, src |-> portal.dst, adjacent |-> portal.adjacent,
     normal |-> portal.face.normal, face |-> face]

\* assert_ne!(portal.src, portal.dst) fails
PushPanics(portal) == portal.src = portal.dst

\* push from the second entry on: the PortalRef of src is stored by now
PushDst(ps, portal, face) ==
    IF NoEntry(ps.inner, portal.dst) THEN [ps EXCEPT !.ok = FALSE]
    ELSE [ps EXCEPT !.inner = EntryPush(@, portal.dst, DstRef(portal, face))]

\* push from the first entry on
PushSrc(ps, portal, face) ==
    IF NoEntry(ps.inner, portal.src) THEN [ps EXCEPT !.ok = FALSE]
    ELSE PushDst([ps EXCEPT !.inner = EntryPush(@, portal.src, SrcRef(portal, face))],
                 portal, face)

\* push from the assertion on, the face being stored by now
PushRefs(ps, portal, face) ==
    IF PushPanics(portal) THEN [ps EXCEPT !.ok = FALSE] ELSE PushSrc(ps, portal, face)

\* Portals::push (face indices count from 0): the face is stored, then the
\* assertion is made, then the PortalRef of src and then that of dst are
\* stored, each under an entry that panics when there is none
PortalsPush(ps, portal) ==
    PushRefs([ps EXCEPT !.faces = Append(@, portal.face)], portal, Len(ps.faces))

\* Extend::extend: iter.for_each(|val| self.push(val)), left at the first panic
RECURSIVE PortalsExtend(_, _, _)
PortalsExtend(ps, portals, i) ==
    IF i > Len(portals) \/ ~ps.ok THEN ps
    ELSE PortalsExtend(PortalsPush(ps, portals[i]), portals, i + 1)

\* Portals::from_ref: the face behind a PortalRef
PortalFace(ps, ref) == ps.faces[ref.face + 1]

\* (vertices[0] + margin * dir, vertices[1] - margin * dir)
Margined(face, step) == << VAdd(face.vertices[1], step), VSub(face.vertices[2], step) >>

\* Portal::apply_margin
ApplyMargin(face, margin) == Margined(face, VMul(FaceDir(face), margin))

\* face_intersect((l, r), start, (end - start).perp())
Crossing(lr, start, end) == FaceIntersect(lr[1], lr[2], start, Perp(VSub(end, start)))

\* a clip that always lands on the first end of the portal
TryClipFirstEnd(face, start, end, margin) == Some(ApplyMargin(face, margin)[1])

\* if p.distance > 0.0 && p.distance < 1.0
TryClipAt(p) ==
    IF Gt(p.distance, Zero(FALSE)) /\ Lt(p.distance, One) THEN Some(p.point) ELSE None

\* Portal::try_clip
TryClip(face, start, end, margin) ==
    TryClipAt(Crossing(ApplyMargin(face, margin), start, end))

\* the if of clip
PortalClipAt(lr, p) ==
    IF Lt(p.distance, Zero(FALSE)) THEN lr[1]
    ELSE IF Gt(p.distance, One) THEN lr[2]
    ELSE p.point

\* clip from apply_margin on
PortalClipBetween(lr, start, end) == PortalClipAt(lr, Crossing(lr, start, end))

\* Portal::clip
PortalClip(face, start, end, margin) ==
    PortalClipBetween(ApplyMargin(face, margin), start, end)

----------------------------------------------------------------------------
(* heuristics.rs *)

euclidiean(start, end) == Length(VSub(end, start))
manhattan(start, end) ==
    Add(Abs(Sub(end.x, start.x)), Abs(Sub(end.y, start.y)))
Heuristic(h, a, b) == IF h = "manhattan" THEN manhattan(a, b) ELSE euclidiean(a, b)
----------------------------------------------------------------------------
(* astar/mod.rs *)

\* WayPoint::new
WayPoint(point, node, portal) == [point |-> point, node |-> node, portal |-> portal]

\* the straight path walked from end to start
PathEuclidianBackwards(start, end) ==
    << WayPoint(end, NullIndex, None), WayPoint(start, NullIndex, None) >>

\* Path::euclidian
PathEuclidian(start, end) ==
    << WayPoint(start, NullIndex, None), WayPoint(end, NullIndex, None) >>

\* Backtrace::start
BacktraceStart(node, point, heuristic) ==
    [node |-> node, point |-> point, portal |-> None, prev |-> None,
     start_cost |-> Zero(FALSE), total_cost |-> heuristic]

\* Backtrace::new from start_cost on
BacktraceFrom(portal, point, prev, heuristic, start_cost) ==
    [node |-> portal.dst, point |-> point, portal |-> Some(portal),
     prev |-> Some(prev.node),
     start_cost |-> start_cost, total_cost |-> Add(start_cost, heuristic)]

\* Backtrace::new
BacktraceNew(portal, point, prev, heuristic) ==
    BacktraceFrom(portal, point, prev, heuristic,
                  Add(prev.start_cost, Distance(point, prev.point)))

\* face.length() of the pair apply_margin returns
MarginLength(face) == Length(VSub(face[1], face[2]))

\* the skip test taking the portal's source for its destination
SkipPortalSrc(portal, face, current, closed, agent_radius) ==
    \/ portal.src = current.node
    \/ Lt(MarginLength(face), Mul(Two, agent_radius))
    \/ portal.dst \in closed

\* the skip test without the look into the closed set
SkipPortalReopens(portal, face, current, closed, agent_radius) ==
    \/ portal.dst = current.node
    \/ Lt(MarginLength(face), Mul(Two, agent_radius))

\* the skip test letting through every portal with some length left
SkipPortalNonPositive(portal, face, current, closed, agent_radius) ==
    \/ portal.dst = current.node
    \/ Le(MarginLength(face), Zero(FALSE))
    \/ portal.dst \in closed

\* astar: the filter_map's early return for a portal not to be taken
SkipPortal(portal, face, current, closed, agent_radius) ==
    \/ portal.dst = current.node
    \/ Lt(MarginLength(face), Mul(Two, agent_radius))
    \/ portal.dst \in closed

\* if p1_dist < p2_dist { p1 } else { p2 }
NearerEnd(face, end, h) ==
    IF Lt(Heuristic(h, face[1], end), Heuristic(h, face[2], end))
    THEN face[1] ELSE face[2]

\* the point at which the portal is crossed
CrossingPoint(ps, portal, current, end, h, agent_radius) ==
    IF Gt(Dot(portal.normal, VSub(end, current.point)), Zero(FALSE))
    THEN PortalClip(PortalFace(ps, portal), current.point, end, agent_radius)
    ELSE NearerEnd(ApplyMargin(PortalFace(ps, portal), agent_radius), end, h)

\* the match storing a candidate of equal total_cost as well
RelaxesOnTie(backtraces, backtrace) ==
    IF backtrace.node \in DOMAIN backtraces
    THEN Ge(backtraces[backtrace.node].total_cost, backtrace.total_cost)
    ELSE TRUE

\* the match on backtraces.entry: TRUE when the candidate is stored and pushed
Relaxes(backtraces, backtrace) ==
    IF backtrace.node \in DOMAIN backtraces
    THEN Gt(backtraces[backtrace.node].total_cost, backtrace.total_cost)
    ELSE TRUE

\* SecondaryMap::insert
MapInsert(map, key, val) ==
    [k \in (DOMAIN map) \cup {key} |-> IF k = key THEN val ELSE map[k]]

\* Backtrace::new(portal, p, &current, (heuristic)(p, end))
Reached(portal, p, current, q) ==
    BacktraceNew(portal, p, current, Heuristic(q.heuristic, p, q.end))

\* the closure's state after assert_eq!(portal.src(), current.node) and the
\* match on backtraces.entry, backtrace being the candidate
Relaxed(st, portal, current, backtrace) ==
    IF Relaxes(st.backtraces, backtrace)
    THEN [st EXCEPT !.ok = @ /\ portal.src = current.node,
                    !.backtraces = MapInsert(@, backtrace.node, backtrace),
                    !.open = @ \cup {backtrace}]
    ELSE [st EXCEPT !.ok = @ /\ portal.src = current.node]

\* the closure of filter_map for one portal of current
ExpandPortal(st, portal, ps, current, q) ==
    IF SkipPortal(portal, ApplyMargin(PortalFace(ps, portal), q.agent_radius),
                  current, q.closed, q.agent_radius)
    THEN st
    ELSE Relaxed(st, portal, current,
                 Reached(portal,
                         CrossingPoint(ps, portal, current, q.end, q.heuristic,
                                       q.agent_radius),
                         current, q))

\* open.extend(portals): the closure run over the portals of current in order.
\* st = [open, backtraces, ok]; ok is FALSE when assert_eq!(src, current.node) fails
RECURSIVE Expand(_, _, _, _, _, _)
Expand(st, refs, i, ps, current, q) ==
    IF i > Len(refs) THEN st
    ELSE Expand(ExpandPortal(st, refs[i], ps, current, q), refs, i + 1, ps, current, q)

\* if path.len() < 2 || prev.distance_squared(node.point) > TOLERANCE
KeepsWayPoint(path, prev, point) ==
    Len(path) < 2 \/ Gt(DistanceSquared(prev, point), TOLERANCE)

\* the loop of backtrace: the path is built end first
RECURSIVE BacktraceLoop(_, _, _, _)
BacktracePushed(path, prev, node) ==
    IF KeepsWayPoint(path, prev, node.point)
    THEN Append(path, WayPoint(node.point, node.node, node.portal))
    ELSE path
BacktraceTurn(path, prev, node, backtraces) ==
    IF node.prev # None
    THEN BacktraceLoop(BacktracePushed(path, prev, node), node.point, node.prev[1],
                       backtraces)
    ELSE BacktracePushed(path, prev, node)
BacktraceLoop(path, prev, current, backtraces) ==
    BacktraceTurn(path, prev, backtraces[current], backtraces)

Reverse(seq) == [i \in 1..Len(seq) |-> seq[Len(seq) + 1 - i]]

\* the buffer left as it was found
PathClearKept(path) == path

\* Vec::clear
PathClear(path) == <<>>

\* Option::get_or_insert_with(Default::default): the buffer astar writes to
GetOrInsert(path) == IF path = None THEN <<>> ELSE path[1]

\* backtrace: clears the path and rewrites it
Backtrace(path, end, current, backtraces) ==
    Reverse(BacktraceLoop(Append(PathClear(path), WayPoint(end, current, None)),
                          end, current, backtraces))

RECURSIVE Shorten(_, _, _, _)

\* shorten after the strip from b on was shortened: the retry for this strip
ShortenAgain(ps, next, k, agent_radius, prev, p) ==
    IF next.ret /\ Gt(DistanceSquared(prev, p), TOLERANCE)
    THEN [path |-> Shorten(ps, next.path, k, agent_radius).path, ret |-> TRUE]
    ELSE [path |-> next.path, ret |-> TRUE]

\* shorten from the try_clip of b's portal on
ShortenBy(ps, path, k, agent_radius, p) ==
    IF p # None
    THEN ShortenAgain(ps, Shorten(ps, [path EXCEPT ![k + 1].point = p[1]], k + 1,
                                  agent_radius),
                      k, agent_radius, path[k + 1].point, p[1])
    ELSE Shorten(ps, path, k + 1, agent_radius)

\* shorten on the slice path[k..]; returns [path, ret]
Shorten(ps, path, k, agent_radius) ==
    IF Len(path) - k + 1 < 3 THEN [path |-> path, ret |-> TRUE]
    ELSE ShortenBy(ps, path, k, agent_radius,
                   IF path[k + 1].portal # None
                   THEN TryClip(PortalFace(ps, path[k + 1].portal[1]), path[k].point,
                                path[k + 2].point, agent_radius)
                   ELSE None)

\* (v).normalize_or_zero().perp_dot(normal).abs()
Incidence(v, normal) == Abs(PerpDot(NormalizeOrZero(v), normal))

\* b.point += normal * margin * (c_inc - a_inc)
Corrected(point, normal, margin, a_inc, c_inc) ==
    VAdd(point, VMul(VMul(normal, margin), Sub(c_inc, a_inc)))

\* the test of resolve_clip, p and q being the ends of the portal
NearAdjacentEnd(b, p, q, margin) ==
    \/ Lt(Distance(b.point, p), Add(margin, TOLERANCE)) /\ b.portal[1].adjacent[1]
    \/ Lt(Distance(b.point, q), Add(margin, TOLERANCE)) /\ b.portal[1].adjacent[2]

\* the point of b after the correction of resolve_clip
ResolvedPoint(ps, a, b, c, margin) ==
    IF b.portal = None THEN b.point
    ELSE IF NearAdjacentEnd(b, PortalFace(ps, b.portal[1]).vertices[1],
                            PortalFace(ps, b.portal[1]).vertices[2], margin)
    THEN Corrected(b.point, b.portal[1].normal, margin,
                   Incidence(VSub(a.point, b.point), b.portal[1].normal),
                   Incidence(VSub(c.point, b.point), b.portal[1].normal))
    ELSE b.point

\* resolve_clip on the slice path[k..]
RECURSIVE ResolveClip(_, _, _, _)
ResolveClip(ps, path, k, margin) ==
    IF Len(path) - k + 1 < 3 THEN path
    ELSE ResolveClip(ps,
                     [path EXCEPT ![k + 1].point =
                         ResolvedPoint(ps, path[k], path[k + 1], path[k + 2], margin)],
                     k + 1, margin)

\* the path backtrace leaves in the buffer
Backtraced(path, end, current, backtraces) ==
    Backtrace(GetOrInsert(path), end, current.node, backtraces)

\* the `End found` arm of astar: the path left in the buffer
FoundPath(ps, path, end, current, backtraces, agent_radius) ==
    ResolveClip(ps,
                Shorten(ps, Backtraced(path, end, current, backtraces),
                        1, agent_radius).path,
                1, agent_radius)

----------------------------------------------------------------------------
(* navigation_context.rs *)

\* the match of NavigationContext::locate
NavLocate(t, point) == IF t = None THEN None ELSE Some(TreeLocate(t[1], point))
----------------------------------------------------------------------------
(* Inputs *)

\* a wall from a to b
Wall(a, b) == NewFace(<<a, b>>)

\* Shape::rect(..).faces(): the four faces of a rectangle, Faces::next order
Rect(x0, y0, x1, y1) ==
    << Wall(At(x0, y0), At(x1, y0)), Wall(At(x1, y0), At(x1, y1)),
       Wall(At(x1, y1), At(x0, y1)), Wall(At(x0, y1), At(x0, y0)) >>

\* a wall with two faces of opposite normals
SealedWall == << Wall(At(0, 0), At(10, 0)), Wall(At(10, 0), At(0, 0)) >>

\* two boxes inside two outer walls
TwoBoxes ==
    Rect(2, 2, 4, 4) \o Rect(6, 4, 8, 6)
    \o << Wall(At(10, 0), At(0, 0)), Wall(At(0, 0), At(0, 8)) >>

\* a square standing on a corner, every normal off the axes
Diamond ==
    << Wall(At(3, 3), At(5, 1)), Wall(At(5, 1), At(7, 3)),
       Wall(At(7, 3), At(5, 5)), Wall(At(5, 5), At(3, 3)) >>

\* a wall of slope 3/4 cut by a wall of slope -4/3 that a third wall of
\* tenths for coordinates meets
Slanted ==
    << Wall(At(1, 0), At(9, 6)), Wall(At(2, 7), At(8, -1)),
       Wall(AtRatio(3, 41, 10), AtRatio(87, 55, 10)) >>

\* the face lists handed to NavigationContext::new: no face; one face; the
\* sealed wall; two collinear faces; two walls crossing; the two boxes; the
\* diamond; the slanted walls
Scenes ==
    { <<>>,
      << Wall(At(0, 0), At(4, 0)) >>,
      SealedWall,
      << Wall(At(0, 0), At(2, 0)), Wall(At(2, 0), At(4, 0)) >>,
      << Wall(At(0, 2), At(4, 2)), Wall(At(2, 0), At(2, 4)) >>,
      TwoBoxes,
      Diamond,
      Slanted }

\* query points
Points ==
    { At(5, -1), At(5, 1), At(5, 2), AtRatio(33, 29, 10), At(7, 3), At(5, 5), At(5, 7) }

\* the points find_path_inc is asked for
IncPoints == { At(5, 1), At(7, 3), At(5, 7) }

Heuristics == {"euclidiean", "manhattan"}

\* agent radii: 0.0, 1.0, ...
MaxRadius == 1
Radii == { FromInt(k) : k \in 0..MaxRadius }

----------------------------------------------------------------------------
(* State *)

VARIABLES
    faces,       \* the faces handed to NavigationContext::new
    tree,        \* NavigationContext.tree : Option<BSPTree>
    portals,     \* NavigationContext.portals
    pending,     \* the ClippedFaces Extend::extend has still to push
    pc,          \* "new", "extend", "idle", "astar", "returned", "panic"
    call,        \* the query being answered
    open,        \* astar: the BinaryHeap
    closed,      \* astar: the HashSet
    backtraces,  \* astar: the SecondaryMap
    path,        \* the Option<Path> a query writes (find_path's local, or the caller's buffer)
    ret          \* what the last operation returned

vars == <<faces, tree, portals, pending, pc, call, open, closed, backtraces, path, ret>>

NoCall == [op |-> "none"]
NoRet == [op |-> "none", value |-> None]

\* the buffer the caller holds at first: None, Some(Path::new()) or
\* Some(Path::euclidian(..))
Buffers == { None, Some(<<>>), Some(PathEuclidian(At(5, -1), At(5, 7))) }

Init ==
    /\ faces \in Scenes
    /\ tree = None
    /\ portals = NewPortals
    /\ pending = <<>>
    /\ pc = "new"
    /\ call = NoCall
    /\ open = {}
    /\ closed = {}
    /\ backtraces = <<>>
    /\ path \in Buffers
    /\ ret = NoRet

\* portals.generate(&tree) up to the call of Extend::extend
Generate(g) ==
    /\ pending' = g.out
    /\ pc' = IF ~g.ok THEN "panic" ELSE IF g.out = <<>> THEN "idle" ELSE "extend"

\* NavigationContext::new from the return of BSPTree::new on
Construct(t) ==
    /\ tree' = t
    /\ IF t = None
       THEN pending' = <<>> /\ pc' = "idle"
       ELSE IF ~t[1].ok
            THEN pending' = <<>> /\ pc' = "panic"
            ELSE Generate(TreeGeneratePortals(t[1]))

\* NavigationContext::new up to the call of Extend::extend
New ==
    /\ pc = "new"
    /\ Construct(NewTree(faces))
    /\ UNCHANGED <<faces, portals, call, open, closed, backtraces, path, ret>>

\* the store after one push of Extend::extend
Pushed(ps) ==
    /\ portals' = ps
    /\ pc' = IF ~ps.ok THEN "panic" ELSE IF Tail(pending) = <<>> THEN "idle" ELSE "extend"

\* Extend::extend: iter.for_each(|val| self.push(val)), one push
Push ==
    /\ pc = "extend"
    /\ pending # <<>>
    /\ Pushed(PortalsPush(portals, Head(pending)))
    /\ pending' = Tail(pending)
    /\ UNCHANGED <<faces, tree, call, open, closed, backtraces, path, ret>>

\* locate taking the tree out of the context: self.tree.take() for &self.tree
LocateTaking(point) ==
    /\ pc = "idle"
    /\ call' = [op |-> "locate", point |-> point]
    /\ ret' = [op |-> "locate", value |-> NavLocate(tree, point)]
    /\ pc' = "returned"
    /\ tree' = None
    /\ UNCHANGED <<faces, portals, pending, open, closed, backtraces, path>>

\* NavigationContext::locate
Locate(point) ==
    /\ pc = "idle"
    /\ call' = [op |-> "locate", point |-> point]
    /\ ret' = [op |-> "locate", value |-> NavLocate(tree, point)]
    /\ pc' = "returned"
    /\ UNCHANGED <<faces, tree, portals, pending, open, closed, backtraces, path>>

\* the locals of a running astar, the buffer it writes and what it returned
Search ==
    [open |-> open, closed |-> closed, backtraces |-> backtraces, path |-> path,
     ret |-> ret, pc |-> pc]

\* the search goes on from s
Moved(s) ==
    /\ open' = s.open
    /\ closed' = s.closed
    /\ backtraces' = s.backtraces
    /\ path' = s.path
    /\ ret' = s.ret
    /\ pc' = s.pc

\* the leaf astar locates a point on; no leaf without a tree
LeafOf(t, point) == IF t = None THEN NullIndex ELSE TreeLocate(t[1], point).index

\* the arguments of a query on the tree t and the two leaves located, as call
\* keeps them; buffer is the content of the path the caller holds
Asking(t, op, start, end, h, agent_radius, buffer) ==
    [op |-> op, start |-> start, end |-> end, heuristic |-> h,
     agent_radius |-> agent_radius, buffer |-> buffer,
     start_node |-> LeafOf(t, start), end_node |-> LeafOf(t, end)]

\* the head of astar: the heap and the map are seeded, handed is the path
\* astar is to write
Seeded(first, handed) ==
    [open |-> {first}, closed |-> {}, backtraces |-> MapInsert(<<>>, first.node, first),
     path |-> handed, ret |-> NoRet, pc |-> "astar"]

\* the tree is absent: the straight path
Straight(s, q) ==
    [s EXCEPT !.path = Some(PathEuclidian(q.start, q.end)),
              !.ret = [op |-> q.op, value |-> Some(PathEuclidian(q.start, q.end))],
              !.pc = "returned"]

\* the match on self.tree of find_path and find_path_inc
Entered(t, s, q, handed) ==
    IF t = None THEN Straight(s, q)
    ELSE Seeded(BacktraceStart(q.start_node, q.start,
                               Heuristic(q.heuristic, q.start, q.end)),
                handed)

\* NavigationContext::find_path
FindPath(start, end, h, agent_radius) ==
    /\ pc = "idle"
    /\ call' = Asking(tree, "find_path", start, end, h, agent_radius, None)
    /\ Moved(Entered(tree, Search,
                     Asking(tree, "find_path", start, end, h, agent_radius, None), None))
    /\ UNCHANGED <<faces, tree, portals, pending>>

\* find_path_inc searching into a fresh buffer, as find_path does
FindPathIncFresh(start, end, h, agent_radius) ==
    /\ pc = "idle"
    /\ call' = Asking(tree, "find_path_inc", start, end, h, agent_radius, path)
    /\ Moved(Entered(tree, Search,
                     Asking(tree, "find_path_inc", start, end, h, agent_radius, path),
                     None))
    /\ UNCHANGED <<faces, tree, portals, pending>>

\* NavigationContext::find_path_inc
FindPathInc(start, end, h, agent_radius) ==
    /\ pc = "idle"
    /\ call' = Asking(tree, "find_path_inc", start, end, h, agent_radius, path)
    /\ Moved(Entered(tree, Search,
                     Asking(tree, "find_path_inc", start, end, h, agent_radius, path),
                     path))
    /\ UNCHANGED <<faces, tree, portals, pending>>

\* assert!(closed.insert(current.node)): HashSet::insert returns true
InsertIsNew(set, node) == node \notin set

\* the heap left with the popped entry still in it
PoppedKept(heap, current) == heap

\* BinaryHeap::pop: the heap without the entry handed out
Popped(heap, current) == heap \ {current}

\* BinaryHeap::pop: the entry at the top of the heap.  Ord::cmp compares the
\* total_costs in reverse, and answers Equal where partial_cmp has no answer.
\* Among costs that all compare, the top is an entry that none lies below.
\* A NaN total_cost is Equal to every other, the sifts stop at it, and which
\* entry stands at the top then rests on the order of the pushes: any of them
Lowest(heap) ==
    IF \E b \in heap : IsNaN(b.total_cost) THEN heap
    ELSE { b \in heap : \A o \in heap : ~Lt(o.total_cost, b.total_cost) }

\* the pop finds its leaf closed: `continue`
Discarded(s, current) == [s EXCEPT !.open = Popped(@, current)]

\* the `End found` arm of the loop, found being the path written
Found(s, op, found, current) ==
    [s EXCEPT !.path = Some(found),
              !.ret = [op |-> op, value |-> Some(found)],
              !.pc = "returned",
              !.open = Popped(@, current)]

\* the rest of a turn of the loop, st being what open.extend(portals) left
Expanded(s, st, current) ==
    [s EXCEPT !.open = st.open,
              !.backtraces = st.backtraces,
              !.closed = @ \cup {current.node},
              !.pc = IF st.ok /\ InsertIsNew(s.closed, current.node)
                     THEN "astar" ELSE "panic"]

\* one turn of `while let Some(current) = open.pop()` on the store ps for the
\* query q, current being the entry popped
AstarTurn(ps, s, q, current) ==
    IF current.node \in s.closed THEN Discarded(s, current)
    ELSE IF current.node = q.end_node
    THEN Found(s, q.op,
               FoundPath(ps, s.path, q.end, current, s.backtraces, q.agent_radius),
               current)
    ELSE Expanded(s,
                  Expand([open |-> Popped(s.open, current),
                          backtraces |-> s.backtraces, ok |-> TRUE],
                         PortalsGet(ps, current.node), 1, ps, current,
                         [end |-> q.end, heuristic |-> q.heuristic,
                          agent_radius |-> q.agent_radius, closed |-> s.closed]),
                  current)

\* open.pop() is None: the loop is left and None returned; find_path hands
\* out its local path, which nothing has written
Exhausted(s, q) ==
    [s EXCEPT !.ret = [op |-> q.op,
                       value |-> IF q.op = "find_path" THEN s.path ELSE None],
              !.pc = "returned"]

\* astar: one turn of `while let Some(current) = open.pop()`, or the final None
AstarStep ==
    /\ pc = "astar"
    /\ IF open = {}
       THEN Moved(Exhausted(Search, call))
       ELSE \E current \in Lowest(open) : Moved(AstarTurn(portals, Search, call, current))
    /\ UNCHANGED <<faces, tree, portals, pending, call>>

\* the caller is done with the returned value; the locals of the call are gone
Return ==
    /\ pc = "returned"
    /\ pc' = "idle"
    /\ call' = NoCall
    /\ ret' = NoRet
    /\ open' = {}
    /\ closed' = {}
    /\ backtraces' = <<>>
    /\ UNCHANGED <<faces, tree, portals, pending, path>>

Next ==
    \/ New
    \/ Push
    \/ \E point \in Points : Locate(point)
    \/ \E start \in Points, end \in Points, h \in Heuristics, r \in Radii :
          FindPath(start, end, h, r)
    \/ \E start \in IncPoints, end \in IncPoints, h \in Heuristics, r \in Radii :
          FindPathInc(start, end, h, r)
    \/ AstarStep
    \/ Return

Spec == Init /\ [][Next]_vars

\* ENABLED <<AstarStep>>_vars written out: the loop has a turn to take and the
\* turn changes the state. Returning changes pc, an expansion closes a leaf
\* that was open; a discard changes the heap when the pop takes the entry out
AstarCanMove ==
    /\ pc = "astar"
    /\ \/ open = {}
       \/ \E current \in Lowest(open) :
             current.node \in closed => Popped(open, current) # open

\* WF_vars(AstarStep) with its ENABLED written out as AstarCanMove: a running
\* search is not suspended, while the loop has a turn to take it takes one
AstarFair == []<>(~AstarCanMove) \/ []<><<AstarStep>>_vars

SpecFair == Spec /\ AstarFair
----------------------------------------------------------------------------
(* A Portals store of its own, filled by any calls of push *)

\* the most pushes on the store
MaxPush == 3

\* the keys the pushed faces name: the null key, the leaves of one tree, and
\* the slot of the first leaf under a later version
PushLeaves == 1..3
PushKeys == {NullIndex} \cup PushLeaves \cup {LaterKey(1, 1)}

\* the faces handed to push: along an axis, of slope 4/3, and of no length
PushFaces ==
    { << At(0, 0), At(2, 0) >>, << At(0, 0), At(3, 4) >>, << At(1, 1), At(1, 1) >> }

\* the ClippedFaces handed to push
PushInputs ==
    { NewClippedFace(v, <<"Front", "Front">>, <<TRUE, FALSE>>, src, dst) :
        v \in PushFaces, src \in PushKeys, dst \in PushKeys }

\* Portals::new
InitPush ==
    /\ faces = <<>>
    /\ tree = None
    /\ portals = NewPortals
    /\ pending = <<>>
    /\ pc = "store"
    /\ call = NoCall
    /\ open = {}
    /\ closed = {}
    /\ backtraces = <<>>
    /\ path = None
    /\ ret = NoRet

\* the store and the caller after one push
PushedAny(ps) ==
    /\ portals' = ps
    /\ pc' = IF ps.ok THEN "store" ELSE "panic"

\* Portals::push called by any user of the store
PushAny(portal) ==
    /\ pc = "store"
    /\ Len(portals.faces) < MaxPush
    /\ PushedAny(PortalsPush(portals, portal))
    /\ UNCHANGED <<faces, tree, pending, call, open, closed, backtraces, path, ret>>

NextPush == \E portal \in PushInputs : PushAny(portal)

SpecPush == InitPush /\ [][NextPush]_vars
----------------------------------------------------------------------------
(* Two constructions side by side: NavigationContext::new or new_shuffle   *)
(* called twice on one face sequence.  Here tree, portals, pending and pc  *)
(* hold one component for each run, and call holds the constructor, the    *)
(* generator handed to each run and the generator as each run leaves it.   *)

\* a u32 is its two 16-bit halves <<high, low>>
U16 == 2^16
Word(hi, lo) == <<hi, lo>>

\* u32::wrapping_add
Add32(a, b) == Word((a[1] + b[1] + ((a[2] + b[2]) \div U16)) % U16, (a[2] + b[2]) % U16)

\* ^ on the low n bits of x and y, n a power of two: the high half of the
\* bits and the low half
RECURSIVE XorBits(_, _, _)
XorBits(x, y, n) ==
    IF n = 1 THEN (x + y) % 2
    ELSE 2^(n \div 2) * XorBits(x \div 2^(n \div 2), y \div 2^(n \div 2), n \div 2)
            + XorBits(x % 2^(n \div 2), y % 2^(n \div 2), n \div 2)

\* ^ of two u32
Xor32(a, b) == Word(XorBits(a[1], b[1], 16), XorBits(a[2], b[2], 16))

\* u32::rotate_left by n, 0 < n <= 16
RotateLeft(a, n) ==
    IF n = 16 THEN Word(a[2], a[1])
    ELSE Word(((a[1] * 2^n) % U16) + (a[2] \div 2^(16 - n)),
              ((a[2] * 2^n) % U16) + (a[1] \div 2^(16 - n)))

\* "expand 32-byte k"
ChaChaConstants ==
    << Word(24944, 30821), Word(13088, 25710), Word(31074, 11570), Word(27424, 25972) >>

\* a += b; d ^= a; d <<<= n on the words x, y, z of the state
Mixed(s, x, z, sum, n) == [s EXCEPT ![x] = sum, ![z] = RotateLeft(Xor32(s[z], sum), n)]
QuarterStep(s, x, y, z, n) == Mixed(s, x, z, Add32(s[x], s[y]), n)

\* the ChaCha quarter round on words a, b, c, d
QuarterRound(s, a, b, c, d) ==
    QuarterStep(QuarterStep(QuarterStep(QuarterStep(s, a, b, d, 16), c, d, b, 12),
                            a, b, d, 8), c, d, b, 7)

\* the quarter rounds of a double round: the columns, then the diagonals
QuarterRounds ==
    << <<1, 5, 9, 13>>, <<2, 6, 10, 14>>, <<3, 7, 11, 15>>, <<4, 8, 12, 16>>,
       <<1, 6, 11, 16>>, <<2, 7, 12, 13>>, <<3, 8, 9, 14>>, <<4, 5, 10, 15>> >>

QuarterRoundAt(s, q) == QuarterRound(s, q[1], q[2], q[3], q[4])

\* the quarter round of a half of the double round that word i belongs to
RoundOf(i, half) ==
    CHOOSE q \in (4 * half + 1)..(4 * half + 4) : \E k \in 1..4 : QuarterRounds[q][k] = i

\* the four quarter rounds of a half of the double round: they work on
\* disjoint words, each word is what its own quarter round leaves
WordAfter(s, i, half) == QuarterRoundAt(s, QuarterRounds[RoundOf(i, half)])[i]
HalfRound(s, half) ==
    << WordAfter(s, 1, half), WordAfter(s, 2, half), WordAfter(s, 3, half),
       WordAfter(s, 4, half), WordAfter(s, 5, half), WordAfter(s, 6, half),
       WordAfter(s, 7, half), WordAfter(s, 8, half), WordAfter(s, 9, half),
       WordAfter(s, 10, half), WordAfter(s, 11, half), WordAfter(s, 12, half),
       WordAfter(s, 13, half), WordAfter(s, 14, half), WordAfter(s, 15, half),
       WordAfter(s, 16, half) >>

\* the columns, then the diagonals
DoubleRound(s) == HalfRound(HalfRound(s, 0), 1)

\* double rounds k..n, each on the state the one before left
RECURSIVE Rounds(_, _, _)
Rounds(s, k, n) ==
    IF k > n \/ Len(s) # 16 THEN s
    ELSE Rounds(DoubleRound(s), k + 1, n)

\* the working state added to the input state
Summed(w, s) == [i \in 1..16 |-> Add32(w[i], s[i])]

\* StdRng is ChaCha12: six double rounds
ChaChaBlock(s) == Summed(Rounds(s, 1, 6), s)

\* the input state: constants, key, 64-bit block counter, stream 0
ChaChaInput(key, counter) ==
    ChaChaConstants \o key
        \o << Word(counter \div U16, counter % U16), Word(0, 0), Word(0, 0), Word(0, 0) >>

\* a random generator: the key, the number of the block to compute next and
\* the words computed and not yet yielded
\* SeedableRng::from_seed: the generator whose key is the seed, the words of
\* the 32 seed bytes read least significant byte first
FromSeed(key) == [key |-> key, counter |-> 0, words |-> <<>>]

\* BlockRng::generate_and_set when the words have run out
Refilled(rng) ==
    IF rng.words # <<>> THEN rng
    ELSE [rng EXCEPT !.words = ChaChaBlock(ChaChaInput(rng.key, rng.counter)),
                     !.counter = @ + 1]

\* RngCore::next_u32: [word, rng]
Yielded(full) == [word |-> Head(full.words), rng |-> [full EXCEPT !.words = Tail(@)]]
NextU32(rng) == Yielded(Refilled(rng))

\* the number of bits of range
RECURSIVE BitLength(_)
BitLength(range) == IF range = 0 THEN 0 ELSE 1 + BitLength(range \div 2)

\* v.wmul(range), range < 2^16: [hi, lo], lo a u32
WMul(v, range) ==
    [hi |-> ((v[1] * range) + ((v[2] * range) \div U16)) \div U16,
     lo |-> Word(((v[1] * range) + ((v[2] * range) \div U16)) % U16, (v[2] * range) % U16)]

\* lo <= zone with zone = (range << range.leading_zeros()).wrapping_sub(1):
\* the low half of range << leading_zeros is zero when range < 2^16
InZone(lo, range) == lo[1] < range * 2^(16 - BitLength(range))

\* UniformInt::sample_single(0, range, rng): [index, rng]
RECURSIVE SampleSingle(_, _)
Sampled(next, range) ==
    IF InZone(WMul(next.word, range).lo, range)
    THEN [index |-> WMul(next.word, range).hi, rng |-> next.rng]
    ELSE SampleSingle(next.rng, range)
SampleSingle(rng, range) == Sampled(NextU32(rng), range)

\* slice::swap
Swap(seq, i, j) == [seq EXCEPT ![i] = seq[j], ![j] = seq[i]]

\* SliceRandom::shuffle: for i in (1..len).rev() swap(i, gen_index(rng, i + 1)),
\* with positions counted from 1; returns [faces, rng], rng as left behind
RECURSIVE ShuffleFrom(_, _, _)
Swapped(fs, drawn, i) == ShuffleFrom(Swap(fs, i, drawn.index + 1), drawn.rng, i - 1)
ShuffleFrom(fs, rng, i) ==
    IF i < 2 \/ i > Len(fs) THEN [faces |-> fs, rng |-> rng]
    ELSE Swapped(fs, SampleSingle(rng, i), i)

\* faces.shuffle(rng)
Shuffle(fs, rng) == ShuffleFrom(fs, rng, Len(fs))

\* a constructor that shuffles whichever way it is called
OrderedShuffling(op, fs, rng) == Shuffle(fs, rng)

\* the face order new_inner receives, and the generator after the call:
\* BSPTree::new hands the faces on, new_shuffle shuffles them first
Ordered(op, fs, rng) ==
    IF op = "new_shuffle" THEN Shuffle(fs, rng) ELSE [faces |-> fs, rng |-> rng]

\* the seed of 32 zero bytes and the seed of the bytes k, 0, 0, 0 for the
\* k-th word
ZeroSeed == [k \in 1..8 |-> Word(0, 0)]
CountSeed == [k \in 1..8 |-> Word(0, k)]

\* the generators handed to new_shuffle: two fresh from their seeds and one
\* after a draw
Generators ==
    { FromSeed(ZeroSeed), FromSeed(CountSeed), NextU32(FromSeed(ZeroSeed)).rng }

TwinInit ==
    /\ faces \in Scenes
    /\ \E op \in {"new", "new_shuffle"}, a \in Generators, b \in Generators :
          call = [op |-> op, given |-> <<a, b>>, rng |-> <<a, b>>]
    /\ tree = <<None, None>>
    /\ portals = <<NewPortals, NewPortals>>
    /\ pending = << <<>>, <<>> >>
    /\ pc = <<"new", "new">>
    /\ open = {}
    /\ closed = {}
    /\ backtraces = <<>>
    /\ path = None
    /\ ret = NoRet

\* portals.generate(&tree) of one run, up to the call of Extend::extend
TwinGenerate(run, g) ==
    /\ pending' = [pending EXCEPT ![run] = g.out]
    /\ pc' = [pc EXCEPT ![run] = IF ~g.ok THEN "panic"
                                 ELSE IF g.out = <<>> THEN "idle" ELSE "extend"]

\* the constructor of one run from the return of BSPTree::new_inner on
TwinConstruct(run, t) ==
    /\ tree' = [tree EXCEPT ![run] = t]
    /\ IF t = None
       THEN /\ pending' = pending
            /\ pc' = [pc EXCEPT ![run] = "idle"]
       ELSE IF ~t[1].ok
            THEN /\ pending' = pending
                 /\ pc' = [pc EXCEPT ![run] = "panic"]
            ELSE TwinGenerate(run, TreeGeneratePortals(t[1]))

\* the constructor of one run given the faces in the order new_inner receives
\* them and the generator as the call leaves it
TwinOrdered(run, sh) ==
    /\ call' = [call EXCEPT !.rng[run] = sh.rng]
    /\ TwinConstruct(run, NewTree(sh.faces))

\* NavigationContext::new or new_shuffle of one run, the caller handing in
\* the generator it holds for the run
TwinNew(run) ==
    /\ pc[run] = "new"
    /\ TwinOrdered(run, Ordered(call.op, faces, call.rng[run]))
    /\ UNCHANGED <<faces, portals, open, closed, backtraces, path, ret>>

\* the store of one run after one push of Extend::extend
TwinPushed(run, ps) ==
    /\ portals' = [portals EXCEPT ![run] = ps]
    /\ pc' = [pc EXCEPT ![run] = IF ~ps.ok THEN "panic"
                                 ELSE IF Tail(pending[run]) = <<>> THEN "idle"
                                 ELSE "extend"]

\* Extend::extend of one run, one push
TwinPush(run) ==
    /\ pc[run] = "extend"
    /\ pending[run] # <<>>
    /\ TwinPushed(run, PortalsPush(portals[run], Head(pending[run])))
    /\ pending' = [pending EXCEPT ![run] = Tail(@)]
    /\ UNCHANGED <<faces, tree, call, open, closed, backtraces, path, ret>>

NextTwin == \E run \in 1..2 : TwinNew(run) \/ TwinPush(run)

SpecTwin == TwinInit /\ [][NextTwin]_vars
----------------------------------------------------------------------------
(* The serialize feature: derive(Serialize, Deserialize) on the context,    *)
(* written by serde_json::to_string_pretty and read by from_str.  A struct  *)
(* becomes an object of its fields, a Vec an array, a Vec2 an array of two  *)
(* numbers, an f32 the shortest decimal text that reads back to it (ryu),   *)
(* an integer its decimal digits.  A number is read into an f64, by one     *)
(* multiplication or division of the digits by a power of ten, and cast.    *)

\* natural numbers without bound: limbs to the base 10^4, the lowest first,
\* the highest not 0
Limb == 10000

RECURSIVE BigOf(_)
BigOf(n) == IF n = 0 THEN <<>> ELSE <<n % Limb>> \o BigOf(n \div Limb)

\* a * k + carry, k of 16 bits at most
RECURSIVE BigTimes(_, _, _)
BigTimesAt(v, a, k) == <<v % Limb>> \o BigTimes(Tail(a), k, v \div Limb)
BigTimes(a, k, carry) ==
    IF a = <<>> THEN BigOf(carry) ELSE BigTimesAt(Head(a) * k + carry, a, k)

\* a + b + carry
RECURSIVE BigPlus(_, _, _)
BigPlusAt(v, a, b) ==
    <<v % Limb>> \o BigPlus(IF a = <<>> THEN a ELSE Tail(a),
                            IF b = <<>> THEN b ELSE Tail(b), v \div Limb)
BigPlus(a, b, carry) ==
    IF a = <<>> /\ b = <<>> THEN BigOf(carry)
    ELSE BigPlusAt((IF a = <<>> THEN 0 ELSE Head(a)) + (IF b = <<>> THEN 0 ELSE Head(b))
                   + carry, a, b)

\* the limbs without the zeros on top
RECURSIVE BigTrim(_)
BigTrim(a) ==
    IF a = <<>> \/ a[Len(a)] # 0 THEN a ELSE BigTrim(SubSeq(a, 1, Len(a) - 1))

\* a - b - borrow for a >= b + borrow, zeros on top left in
RECURSIVE BigTake(_, _, _)
BigTakeAt(v, a, b) ==
    <<v % Limb>> \o BigTake(Tail(a), IF b = <<>> THEN b ELSE Tail(b),
                            IF v < Limb THEN 1 ELSE 0)
BigTake(a, b, borrow) ==
    IF a = <<>> THEN <<>>
    ELSE BigTakeAt(Limb + Head(a) - (IF b = <<>> THEN 0 ELSE Head(b)) - borrow, a, b)
BigMinus(a, b) == BigTrim(BigTake(a, b, 0))

\* a < b
RECURSIVE BigLessAt(_, _, _)
BigLessAt(a, b, i) ==
    IF i = 0 THEN FALSE
    ELSE IF a[i] # b[i] THEN a[i] < b[i]
    ELSE BigLessAt(a, b, i - 1)
BigLess(a, b) == IF Len(a) # Len(b) THEN Len(a) < Len(b) ELSE BigLessAt(a, b, Len(a))

\* a * 2^n, a * 10^n
RECURSIVE BigShift(_, _)
BigShift(a, n) ==
    IF n = 0 THEN a
    ELSE IF n >= 13 THEN BigShift(BigTimes(a, 8192, 0), n - 13)
    ELSE BigTimes(a, 2 ^ n, 0)
RECURSIVE BigTens(_, _)
BigTens(a, n) ==
    IF n = 0 THEN a
    ELSE IF n >= 4 THEN BigTens(<<0>> \o a, n - 4)
    ELSE BigTimes(a, 10 ^ n, 0)

\* the text of an f32 that is not finite: serde_json writes null
Null == [null |-> TRUE, neg |-> FALSE, digits |-> 0, exp10 |-> 0]

\* the text of a number: its sign and digits * 10^exp10, the digits written
\* without zeros at the end (12.5 for digits 125, exp10 -1; 100.0 for 1, 2)
Number(neg, digits, exp10) ==
    [null |-> FALSE, neg |-> neg, digits |-> digits, exp10 |-> exp10]

\* ryu: the shortest digits that read back to x, the nearest to x among
\* those, a tie taking the even one.  g = [r, s, up, down, acc, k]: what is
\* left of x to write is r / s, half the gap to the next f32 above is up / s
\* and below down / s, the digits made so far stand in acc, and k counts the
\* places before the point.  The bounds of the gap count in when the mantissa
\* is even (incl)
Gap(r, s, up, down, acc, k) ==
    [r |-> r, s |-> s, up |-> up, down |-> down, acc |-> acc, k |-> k]

\* r / s at or below the lower bound, and at or above the upper
AtLow(g, incl) == IF incl THEN ~BigLess(g.down, g.r) ELSE BigLess(g.r, g.down)
AtHigh(above, s, incl) == IF incl THEN ~BigLess(above, s) ELSE BigLess(s, above)

\* the last digit, r / s left of it: down, up, or the nearer of the two
DigitLast(g, d, low, high, twice) ==
    IF low /\ ~high THEN d
    ELSE IF high /\ ~low THEN d + 1
    ELSE IF BigLess(twice, g.s) THEN d
    ELSE IF BigLess(g.s, twice) THEN d + 1
    ELSE IF d % 2 = 0 THEN d ELSE d + 1

RECURSIVE Digits(_, _)
DigitEnds(g, incl, d, low, high) ==
    IF ~low /\ ~high THEN Digits([g EXCEPT !.acc = @ * 10 + d], incl)
    ELSE Number(FALSE, g.acc * 10 + DigitLast(g, d, low, high, BigTimes(g.r, 2, 0)), g.k)
\* the digit d = r div s, found by taking s away
RECURSIVE DigitAt(_, _, _)
DigitAt(g, incl, d) ==
    IF ~BigLess(g.r, g.s) THEN DigitAt([g EXCEPT !.r = BigMinus(@, g.s)], incl, d + 1)
    ELSE DigitEnds(g, incl, d, AtLow(g, incl), AtHigh(BigPlus(g.r, g.up, 0), g.s, incl))
Digits(g, incl) ==
    DigitAt(Gap(BigTimes(g.r, 10, 0), g.s, BigTimes(g.up, 10, 0), BigTimes(g.down, 10, 0),
                g.acc, g.k - 1),
            incl, 0)

\* the place of the first digit: k with (r + up) / s below 10^k and not below
\* 10^(k - 1)
RECURSIVE Scaled(_, _)
ScaledAt(g, incl, above) ==
    IF AtHigh(above, g.s, incl)
    THEN Scaled([g EXCEPT !.s = BigTimes(@, 10, 0), !.k = @ + 1], incl)
    ELSE IF ~AtHigh(BigTimes(above, 10, 0), g.s, incl)
    THEN Scaled(Gap(BigTimes(g.r, 10, 0), g.s, BigTimes(g.up, 10, 0),
                    BigTimes(g.down, 10, 0), 0, g.k - 1),
                incl)
    ELSE Digits(g, incl)
Scaled(g, incl) == ScaledAt(g, incl, BigPlus(g.r, g.up, 0))

\* c is 2 when the f32 below x is half as far as the one above
Shortest(x, c) ==
    Scaled(Gap(BigShift(BigOf(x.man * 2 * c), Max(x.exp, 0)),
               BigShift(BigOf(2 * c), Max(-x.exp, 0)),
               BigShift(BigOf(c), Max(x.exp, 0)),
               BigShift(BigOf(1), Max(x.exp, 0)),
               0, 0),
           x.man % 2 = 0)

\* the number without the zeros at the end of its digits
RECURSIVE Stripped(_)
Stripped(t) ==
    IF t.digits % 10 = 0
    THEN Stripped([t EXCEPT !.digits = @ \div 10, !.exp10 = @ + 1])
    ELSE t

\* serde_json's text of an f32: ryu's digits, -0.0 for the negative zero,
\* null for what is not finite
FormatF32(x) ==
    IF ~IsFinite(x) THEN Null
    ELSE IF IsZero(x) THEN Number(x.neg, 0, 0)
    ELSE [Stripped(Shortest(x, IF x.man = Hidden /\ x.exp > ExpMin THEN 2 ELSE 1))
          EXCEPT !.neg = x.neg]

\* n / d brought to 1 <= n / d < 2 by doubling one of the two, thirteen
\* times at once while that falls short: h = [n, d, e] with the value
\* n / d * 2^e
RECURSIVE Halved(_)
Halved(h) ==
    IF BigLess(BigTimes(h.n, 8192, 0), h.d)
    THEN Halved([h EXCEPT !.n = BigTimes(@, 8192, 0), !.e = @ - 13])
    ELSE IF BigLess(h.n, h.d)
    THEN Halved([h EXCEPT !.n = BigTimes(@, 2, 0), !.e = @ - 1])
    ELSE IF ~BigLess(h.n, BigTimes(h.d, 8192, 0))
    THEN Halved([h EXCEPT !.d = BigTimes(@, 8192, 0), !.e = @ + 13])
    ELSE IF ~BigLess(h.n, BigTimes(h.d, 2, 0))
    THEN Halved([h EXCEPT !.d = BigTimes(@, 2, 0), !.e = @ + 1])
    ELSE h

\* k more bits of the quotient r / d, r < d: b = [q, r]
RECURSIVE Bits(_, _, _)
BitsAt(r, d, k, q) ==
    IF BigLess(r, d) THEN Bits([q |-> 2 * q, r |-> r], d, k - 1)
    ELSE Bits([q |-> 2 * q + 1, r |-> BigMinus(r, d)], d, k - 1)
Bits(b, d, k) == IF k = 0 THEN b ELSE BitsAt(BigTimes(b.r, 2, 0), d, k, b.q)

\* an f64 above 0: (hi * 2^27 + lo) * 2^(e - 52), hi of 26 bits, lo of 27
Double(hi, lo, e) ==
    IF lo = 2 ^ 27 THEN [hi |-> hi + 1, lo |-> 0, e |-> e] ELSE [hi |-> hi, lo |-> lo, e |-> e]

\* the f64 nearest to the quotient, ties to even: low holds 27 bits of the
\* mantissa and one bit more
DoubleRounded(hi, low, e) ==
    Double(hi,
           (low.q \div 2)
           + (IF low.q % 2 = 1 /\ (low.r # <<>> \/ (low.q \div 2) % 2 = 1) THEN 1 ELSE 0),
           e)
DoubleLow(high, d, e) == DoubleRounded(high.q, Bits([q |-> 0, r |-> high.r], d, 28), e)
DoubleHalved(h) == DoubleLow(Bits([q |-> 1, r |-> BigMinus(h.n, h.d)], h.d, 25), h.d, h.e)
\* the f64 nearest to n / d
DoubleOf(n, d) == DoubleHalved(Halved([n |-> n, d |-> d, e |-> 0]))

\* a * b
RECURSIVE BigMul(_, _)
BigMulAt(low, high) == BigPlus(low, IF high = <<>> THEN high ELSE <<0>> \o high, 0)
BigMul(a, b) ==
    IF b = <<>> THEN <<>>
    ELSE BigMulAt(BigTrim(BigTimes(a, Head(b), 0)), BigMul(a, Tail(b)))

\* an f64 that is a whole number, e >= 52
DoubleBig(x) == BigShift(BigPlus(BigShift(BigOf(x.hi), 27), BigOf(x.lo), 0), x.e - 52)

\* POW10[k]: the f64 nearest to 10^k, which is 10^k up to k = 22
Pow10(k) ==
    IF k <= 22 THEN BigTens(BigOf(1), k)
    ELSE DoubleBig(DoubleOf(BigTens(BigOf(1), k), BigOf(1)))

\* f64_from_parts: `significand as f64`, then f *= pow for an exponent of 0 or
\* more and f /= pow for one below
DoubleFromParts(digits, exp10) ==
    IF exp10 >= 0 THEN DoubleOf(BigMul(Pow10(exp10), BigOf(digits)), BigOf(1))
    ELSE DoubleOf(BigOf(digits), Pow10(-exp10))

\* `f as f32`
DoubleAsF32(neg, x) == Pack(neg, x.hi, x.e - 25, x.lo # 0)

\* f64_from_parts returns Err(NumberOutOfRange): the product is infinite, or
\* the exponent is past the table of powers, 308
DoubleOutOfRange(x) == x.e > 1023

\* whether serde_json reads an f32 from the text: null is no f32, and a
\* number beyond the f64s is an error.  A number no f32 holds is read, as an
\* infinite f32; below 10^0 nothing is out of range
NumberReads(text) ==
    /\ ~text.null
    /\ \/ text.digits = 0
       \/ text.exp10 < 0
       \/ /\ text.exp10 <= 308
          /\ ~DoubleOutOfRange(DoubleFromParts(text.digits, text.exp10))

\* a number read without its sign
ParseF32Unsigned(text) ==
    IF ~NumberReads(text) THEN None
    ELSE IF text.digits = 0 THEN Zero(FALSE)
    ELSE DoubleAsF32(FALSE, DoubleFromParts(text.digits, text.exp10))

\* serde_json's f32 of a number: the f64 of its digits and exponent, cast;
\* None for a text it returns Err on
ParseF32(text) ==
    IF ~NumberReads(text) THEN None
    ELSE IF text.digits = 0 THEN Zero(text.neg)
    ELSE DoubleAsF32(text.neg, DoubleFromParts(text.digits, text.exp10))

\* the decimal digits of a usize or u32, and the number read from them
RECURSIVE FormatInt(_)
FormatInt(n) == IF n < 10 THEN <<n>> ELSE Append(FormatInt(n \div 10), n % 10)
RECURSIVE ParseInt(_)
ParseInt(text) ==
    IF Len(text) = 1 THEN text[1]
    ELSE ParseInt(SubSeq(text, 1, Len(text) - 1)) * 10 + text[Len(text)]

\* true and false
FormatBool(b) == IF b THEN "true" ELSE "false"
ParseBool(text) == text = "true"

\* a NodeIndex: the slot of the key;  Option<NodeIndex>: null for None
SerIndex(index) == FormatInt(index)
DeIndex(json) == ParseInt(json)
SerChild(child) == IF child = NullIndex THEN None ELSE Some(SerIndex(child))
DeChild(json) == IF json = None THEN NullIndex ELSE DeIndex(json[1])

\* glam's Vec2: the array of x and y
SerVec2(v) == <<FormatF32(v.x), FormatF32(v.y)>>
DeVec2(json) == Vec2(ParseF32(json[1]), ParseF32(json[2]))

\* whether an f32 can be read from every number of a Vec2's text
VecReads(json) == NumberReads(json[1]) /\ NumberReads(json[2])

\* Face (shape.rs): normal, vertices
SerFace(f) ==
    [normal |-> SerVec2(f.normal),
     vertices |-> <<SerVec2(f.vertices[1]), SerVec2(f.vertices[2])>>]
DeFace(json) ==
    [normal |-> DeVec2(json.normal),
     vertices |-> <<DeVec2(json.vertices[1]), DeVec2(json.vertices[2])>>]
FaceReads(json) ==
    VecReads(json.normal) /\ VecReads(json.vertices[1]) /\ VecReads(json.vertices[2])

\* BSPNode (node.rs): origin, normal, front, back, face, depth, double_planar
SerNode(node) ==
    [origin |-> SerVec2(node.origin), normal |-> SerVec2(node.normal),
     front |-> SerChild(node.front), back |-> SerChild(node.back),
     face |-> SerFace(node.face), depth |-> FormatInt(node.depth),
     double_planar |-> FormatBool(node.double_planar)]
DeNode(json) ==
    [origin |-> DeVec2(json.origin), normal |-> DeVec2(json.normal),
     front |-> DeChild(json.front), back |-> DeChild(json.back),
     face |-> DeFace(json.face), depth |-> ParseInt(json.depth),
     double_planar |-> ParseBool(json.double_planar)]
NodeReads(json) == VecReads(json.origin) /\ VecReads(json.normal) /\ FaceReads(json.face)

\* the elements of a Vec or of the slots of a map, one by one
RECURSIVE SerNodes(_, _)
SerNodes(nodes, i) ==
    IF i > Len(nodes) THEN <<>> ELSE <<SerNode(nodes[i])>> \o SerNodes(nodes, i + 1)
RECURSIVE DeNodes(_, _)
DeNodes(json, i) ==
    IF i > Len(json) THEN <<>> ELSE <<DeNode(json[i])>> \o DeNodes(json, i + 1)
RECURSIVE SerFaces(_, _)
SerFaces(fs, i) ==
    IF i > Len(fs) THEN <<>> ELSE <<SerFace(fs[i])>> \o SerFaces(fs, i + 1)
RECURSIVE DeFaces(_, _)
DeFaces(json, i) ==
    IF i > Len(json) THEN <<>> ELSE <<DeFace(json[i])>> \o DeFaces(json, i + 1)

\* BSPTree (tree/mod.rs): nodes, root, l, r
SerTree(t) ==
    [nodes |-> SerNodes(t.nodes, 1), root |-> SerIndex(t.root),
     l |-> SerVec2(t.l), r |-> SerVec2(t.r)]
DeTree(json) ==
    [nodes |-> DeNodes(json.nodes, 1), root |-> DeIndex(json.root),
     l |-> DeVec2(json.l), r |-> DeVec2(json.r)]
TreeReads(json) ==
    /\ VecReads(json.l) /\ VecReads(json.r)
    /\ \A i \in 1..Len(json.nodes) : NodeReads(json.nodes[i])

\* PortalRef as tree/portal.rs declares it: src, dst, face, normal
SerRef(ref) ==
    [src |-> SerIndex(ref.src), dst |-> SerIndex(ref.dst), face |-> FormatInt(ref.face),
     normal |-> SerVec2(ref.normal)]
DeRef(json) ==
    [src |-> DeIndex(json.src), dst |-> DeIndex(json.dst), face |-> ParseInt(json.face),
     normal |-> DeVec2(json.normal)]

\* the field adjacent: [bool; 2] that Portals::push stores in a PortalRef and
\* resolve_clip reads, written and read as the fields declared are
SerAdjacent(ref) == <<FormatBool(ref.adjacent[1]), FormatBool(ref.adjacent[2])>>
DeAdjacent(json) == <<ParseBool(json[1]), ParseBool(json[2])>>

\* a PortalRef with every field it holds
SerPortalRef(ref) == [declared |-> SerRef(ref), adjacent |-> SerAdjacent(ref)]
WithAdjacent(ref, adjacent) ==
    [src |-> ref.src, dst |-> ref.dst, adjacent |-> adjacent, normal |-> ref.normal,
     face |-> ref.face]
DePortalRef(json) == WithAdjacent(DeRef(json.declared), DeAdjacent(json.adjacent))

RECURSIVE SerRefs(_, _)
SerRefs(refs, i) ==
    IF i > Len(refs) THEN <<>> ELSE <<SerPortalRef(refs[i])>> \o SerRefs(refs, i + 1)
RECURSIVE DeRefs(_, _)
DeRefs(json, i) ==
    IF i > Len(json) THEN <<>> ELSE <<DePortalRef(json[i])>> \o DeRefs(json, i + 1)

\* Portals (tree/portals.rs): inner, faces
SerPortals(ps) ==
    [inner |-> [k \in DOMAIN ps.inner |-> SerRefs(ps.inner[k], 1)],
     faces |-> SerFaces(ps.faces, 1)]
DePortals(json) ==
    [faces |-> DeFaces(json.faces, 1),
     inner |-> [k \in DOMAIN json.inner |-> DeRefs(json.inner[k], 1)],
     ok |-> TRUE]
PortalsRead(json) ==
    /\ \A i \in 1..Len(json.faces) : FaceReads(json.faces[i])
    /\ \A k \in DOMAIN json.inner :
          \A i \in 1..Len(json.inner[k]) : VecReads(json.inner[k][i].declared.normal)

\* NavigationContext: tree, portals.  serde_json::to_string_pretty(&nav)
ToJson(t, ps) ==
    [tree |-> IF t = None THEN None ELSE Some(SerTree(t[1])),
     portals |-> SerPortals(ps)]

\* whether from_str returns Ok on the text
Reads(json) ==
    /\ json.tree # None => TreeReads(json.tree[1])
    /\ PortalsRead(json.portals)

\* serde_json::from_str(&json) of a text that reads
FromJson(json) ==
    [tree |-> IF json.tree = None THEN None ELSE Some(DeTree(json.tree[1])),
     portals |-> DePortals(json.portals)]

----------------------------------------------------------------------------
(* tests/serde.rs: a context, the context read back from its text, and the  *)
(* same query put to both.  tree, portals, pending, pc, call, open, closed, *)
(* backtraces, path and ret hold one component for each of the two.         *)
(* BinaryHeap::pop hands out the same entry from heaps that hold the same   *)
(* entries.                                                                 *)

\* a box and two outer walls with corners at tenths, which no f32 holds
\* exactly
WallTenths(x0, y0, x1, y1) == Wall(AtRatio(x0, y0, 10), AtRatio(x1, y1, 10))
TenthsBox ==
    << WallTenths(21, 21, 43, 21), WallTenths(43, 21, 43, 43), WallTenths(43, 43, 21, 43),
       WallTenths(21, 43, 21, 21), WallTenths(101, 1, 1, 1), WallTenths(1, 1, 1, 81) >>

SerdeInit ==
    /\ faces \in Scenes \cup {TenthsBox}
    /\ tree = <<None, None>>
    /\ portals = <<NewPortals, NewPortals>>
    /\ pending = << <<>>, <<>> >>
    /\ pc = <<"new", "new">>
    /\ call = <<NoCall, NoCall>>
    /\ open = << {}, {} >>
    /\ closed = << {}, {} >>
    /\ backtraces = << <<>>, <<>> >>
    /\ path = <<None, None>>
    /\ ret = <<NoRet, NoRet>>

\* NavigationContext::new of the first context up to the call of Extend::extend
SerdeNew ==
    /\ pc = <<"new", "new">>
    /\ TwinConstruct(1, NewTree(faces))
    /\ UNCHANGED <<faces, portals, call, open, closed, backtraces, path, ret>>

\* from_str(&json).unwrap(): the context read, or the panic on a text that
\* cannot be read
Reread(json) ==
    IF Reads(json)
    THEN /\ tree' = <<tree[1], FromJson(json).tree>>
         /\ portals' = <<portals[1], FromJson(json).portals>>
         /\ pc' = <<"idle", "idle">>
    ELSE /\ UNCHANGED <<tree, portals>>
         /\ pc' = <<"idle", "panic">>

\* let nav: NavigationContext = from_str(&to_string_pretty(&nav).unwrap()).unwrap()
RoundTrip ==
    /\ pc = <<"idle", "new">>
    /\ Reread(ToJson(tree[1], portals[1]))
    /\ UNCHANGED <<faces, pending, call, open, closed, backtraces, path, ret>>

\* the locals of the search of one of the two contexts
SearchOf(i) ==
    [open |-> open[i], closed |-> closed[i], backtraces |-> backtraces[i],
     path |-> path[i], ret |-> ret[i], pc |-> pc[i]]

\* the two searches go on from s1 and s2
BothMoved(s1, s2) ==
    /\ open' = <<s1.open, s2.open>>
    /\ closed' = <<s1.closed, s2.closed>>
    /\ backtraces' = <<s1.backtraces, s2.backtraces>>
    /\ path' = <<s1.path, s2.path>>
    /\ ret' = <<s1.ret, s2.ret>>
    /\ pc' = <<s1.pc, s2.pc>>

\* the query put to both contexts, each locating the two points in its tree
BothAsked(q1, q2) ==
    /\ call' = <<q1, q2>>
    /\ BothMoved(Entered(tree[1], SearchOf(1), q1, None),
                 Entered(tree[2], SearchOf(2), q2, None))

\* nav.find_path(start, end, h, info) of the one and of the other
SerdeFindPath(start, end, h, agent_radius) ==
    /\ pc = <<"idle", "idle">>
    /\ BothAsked(Asking(tree[1], "find_path", start, end, h, agent_radius, None),
                 Asking(tree[2], "find_path", start, end, h, agent_radius, None))
    /\ UNCHANGED <<faces, tree, portals, pending>>

\* what open.pop() may hand out in the search of one context: None for an
\* empty heap or a search that has returned
Pops(i) == IF pc[i] = "astar" /\ open[i] # {} THEN Lowest(open[i]) ELSE {None}

\* one turn of the loop of one context, or its final None; a search that has
\* returned stays as it is
Turned(i, current) ==
    IF pc[i] # "astar" THEN SearchOf(i)
    ELSE IF open[i] = {} THEN Exhausted(SearchOf(i), call[i])
    ELSE AstarTurn(portals[i], SearchOf(i), call[i], current)

\* both searches take a turn
SerdeStep ==
    /\ pc[1] = "astar" \/ pc[2] = "astar"
    /\ pc[1] # "panic" /\ pc[2] # "panic"
    /\ \E c1 \in Pops(1), c2 \in Pops(2) :
          /\ open[1] = open[2] => c1 = c2
          /\ BothMoved(Turned(1, c1), Turned(2, c2))
    /\ UNCHANGED <<faces, tree, portals, pending, call>>

\* the caller is done with both answers
SerdeReturn ==
    /\ pc = <<"returned", "returned">>
    /\ pc' = <<"idle", "idle">>
    /\ call' = <<NoCall, NoCall>>
    /\ ret' = <<NoRet, NoRet>>
    /\ open' = << {}, {} >>
    /\ closed' = << {}, {} >>
    /\ backtraces' = << <<>>, <<>> >>
    /\ UNCHANGED <<faces, tree, portals, pending, path>>

NextSerde ==
    \/ SerdeNew
    \/ TwinPush(1)
    \/ RoundTrip
    \/ \E start \in Points, end \in Points, h \in Heuristics, r \in Radii :
          SerdeFindPath(start, end, h, r)
    \/ SerdeStep
    \/ SerdeReturn

SpecSerde == SerdeInit /\ [][NextSerde]_vars
----------------------------------------------------------------------------
(* Agents of other radii *)

\* agent radii off the whole ones: 0.75, 1.75, ...
FineRadii == { Add(FromInt(k), Ratio(3, 4)) : k \in 0..MaxRadius }

NextNarrow ==
    \/ New
    \/ Push
    \/ \E start \in Points, end \in Points, h \in Heuristics, r \in FineRadii :
          FindPath(start, end, h, r)
    \/ AstarStep
    \/ Return

SpecNarrow == Init /\ [][NextNarrow]_vars

----------------------------------------------------------------------------
(* A wall with a doorway: two faces on one line with a gap between them *)

\* the wall y = 2 open between x = 2 and x = 4, a post in front of either
\* side of the doorway, a wall behind
Doorway ==
    << Wall(At(0, 2), At(2, 2)), Wall(At(4, 2), At(6, 2)), Wall(At(2, 0), At(2, 1)),
       Wall(At(4, 1), At(4, 0)), Wall(At(6, 4), At(0, 4)) >>

DoorPoints == { At(3, 1), At(3, 3), At(1, 1), At(5, 3) }

InitDoor ==
    /\ faces \in {Doorway, TwoBoxes}
    /\ tree = None
    /\ portals = NewPortals
    /\ pending = <<>>
    /\ pc = "new"
    /\ call = NoCall
    /\ open = {}
    /\ closed = {}
    /\ backtraces = <<>>
    /\ path = None
    /\ ret = NoRet

NextDoor ==
    \/ New
    \/ Push
    \/ \E start \in DoorPoints, end \in DoorPoints, h \in Heuristics, r \in Radii :
          FindPath(start, end, h, r)
    \/ AstarStep
    \/ Return

SpecDoor == InitDoor /\ [][NextDoor]_vars
----------------------------------------------------------------------------
(* layered_context.rs: LayeredNavigationContext.  In the specification of   *)
(* this section the variable faces holds the pairs (height, face) handed to *)
(* new, tree holds the Vec layers, and portals the portal store of the      *)
(* layer the running call has bound.                                        *)

\* NotNan::new(k).unwrap() of every pair panics on a NaN
NotNanPanics(pairs) == \E i \in 1..Len(pairs) : IsNaN(pairs[i].k)

\* (k / TOLERANCE).round() as i32
GroupKey(k) == ToI32(Round(Div(k, TOLERANCE)))

\* k as f32 * TOLERANCE
LayerHeight(key) == Mul(FromInt(key), TOLERANCE)

\* sorted_by_key(|(k, _)| *k): a stable sort, here by insertion
RECURSIVE InsertByKey(_, _)
InsertByKey(sorted, pair) ==
    IF sorted = <<>> THEN <<pair>>
    ELSE IF Le(sorted[Len(sorted)].k, pair.k) THEN Append(sorted, pair)
    ELSE Append(InsertByKey(SubSeq(sorted, 1, Len(sorted) - 1), pair), sorted[Len(sorted)])

RECURSIVE SortedByKey(_, _, _)
SortedByKey(sorted, pairs, i) ==
    IF i > Len(pairs) THEN sorted
    ELSE SortedByKey(InsertByKey(sorted, pairs[i]), pairs, i + 1)

\* group_by: runs of neighbours with one group key, [key, faces] each
RECURSIVE GroupedBy(_, _, _)
GroupedBy(groups, pairs, i) ==
    IF i > Len(pairs) THEN groups
    ELSE IF groups # <<>> /\ groups[Len(groups)].key = GroupKey(pairs[i].k)
    THEN GroupedBy([groups EXCEPT ![Len(groups)].faces = Append(@, pairs[i].face)],
                   pairs, i + 1)
    ELSE GroupedBy(Append(groups, [key |-> GroupKey(pairs[i].k), faces |-> <<pairs[i].face>>]),
                   pairs, i + 1)

\* Some((NotNan::new(k as f32 * TOLERANCE).unwrap(), tree, portals))
LayerBuilt(key, t, g, pushed) ==
    [layers |-> << [key |-> LayerHeight(key), tree |-> t, portals |-> pushed] >>,
     ok |-> t.ok /\ g.ok /\ pushed.ok]

\* the closure of flat_map for a tree that was built: portals.generate(&tree)
LayerOf(key, t, g) == LayerBuilt(key, t, g, PortalsExtend(NewPortals, g.out, 1))

\* the closure of flat_map: BSPTree::new(..)? yields no layer for None
LayerOfTree(key, t) ==
    IF t = None THEN [layers |-> <<>>, ok |-> TRUE]
    ELSE IF ~t[1].ok THEN [layers |-> <<>>, ok |-> FALSE]
    ELSE LayerOf(key, t[1], TreeGeneratePortals(t[1]))

\* collect_vec: the layers so far and those of one more group
Collect(acc, built) == [layers |-> acc.layers \o built.layers, ok |-> acc.ok /\ built.ok]

RECURSIVE LayersOf(_, _, _)
LayersOf(acc, groups, i) ==
    IF i > Len(groups) \/ ~acc.ok THEN acc
    ELSE LayersOf(Collect(acc, LayerOfTree(groups[i].key, NewTree(groups[i].faces))),
                  groups, i + 1)

\* LayeredNavigationContext::new; sorted_by_key drains the map over the pairs
\* before a tree is built, so that a NaN height panics with no layer made
NewLayers(pairs) ==
    IF NotNanPanics(pairs) THEN [layers |-> <<>>, ok |-> FALSE]
    ELSE LayersOf([layers |-> <<>>, ok |-> TRUE],
                  GroupedBy(<<>>, SortedByKey(<<>>, pairs, 1), 1), 1)

\* the loop of layer, i being slice.len() / 2.
\* [panics: the index slice[i] is out of bounds, value]
RECURSIVE LayerSearch(_, _)
LayerTurn(slice, layer, i) ==
    IF i + 1 > Len(slice) THEN [panics |-> TRUE, value |-> None]
    ELSE IF Len(slice) = 1 THEN [panics |-> FALSE, value |-> Some(slice[i + 1])]
    ELSE IF Lt(layer, slice[i + 1].key) THEN LayerSearch(SubSeq(slice, 1, i), layer)
    ELSE IF Eq(layer, slice[i + 1].key) THEN [panics |-> FALSE, value |-> Some(slice[i + 1])]
    ELSE LayerSearch(SubSeq(slice, i + 1, Len(slice)), layer)
LayerSearch(slice, layer) == LayerTurn(slice, layer, Len(slice) \div 2)

\* LayeredNavigationContext::layer
Layer(layers, layer) ==
    IF IsNaN(layer) THEN [panics |-> FALSE, value |-> None]
    ELSE LayerSearch(layers, layer)

\* BSPTree::node: self.nodes.get(index)
TreeNode(t, index) == IF index \in 1..Len(t.nodes) THEN Some(t.nodes[index]) ELSE None

\* the pairs handed to new: none; one layer of two crossing walls; the same
\* with a second layer given by two heights that round to one key; a pair
\* with a NaN height behind one with a number
LayeredScenes ==
    { <<>>,
      << [k |-> Zero(FALSE), face |-> Wall(At(0, 2), At(4, 2))],
         [k |-> Zero(FALSE), face |-> Wall(At(2, 0), At(2, 4))] >>,
      << [k |-> Ratio(5, 16), face |-> Wall(At(0, 0), At(4, 0))],
         [k |-> Zero(FALSE), face |-> Wall(At(0, 2), At(4, 2))],
         [k |-> Ratio(1, 4), face |-> Wall(At(2, 0), At(2, 4))],
         [k |-> Zero(TRUE), face |-> Wall(At(2, 0), At(2, 4))] >>,
      << [k |-> Zero(FALSE), face |-> Wall(At(0, 2), At(4, 2))],
         [k |-> NaN, face |-> Wall(At(2, 0), At(2, 4))] >> }

\* the heights asked for: NaN, and heights on, between and beyond the layers
LayerValues ==
    { NaN, Ratio(-1, 16), Zero(FALSE), Ratio(1, 8), Ratio(3, 10), Ratio(5, 16) }

LayerPoints == { At(1, 1), At(3, 3), At(3, 1) }

InitLayered ==
    /\ faces \in LayeredScenes
    /\ tree = <<>>
    /\ portals = NewPortals
    /\ pending = <<>>
    /\ pc = "new"
    /\ call = NoCall
    /\ open = {}
    /\ closed = {}
    /\ backtraces = <<>>
    /\ path \in {None, Some(<<>>)}
    /\ ret = NoRet

\* new from the return of the collect on
LayeredConstruct(built) ==
    /\ tree' = built.layers
    /\ pc' = IF built.ok THEN "idle" ELSE "panic"

\* LayeredNavigationContext::new
LayeredNew ==
    /\ pc = "new"
    /\ LayeredConstruct(NewLayers(faces))
    /\ UNCHANGED <<faces, portals, pending, call, open, closed, backtraces, path, ret>>

\* a call that ends with the lookup of the layer: found is what layer gave
\* back, value what the call makes of a layer
Answer(op, found, value) ==
    /\ pc' = IF found.panics THEN "panic" ELSE "returned"
    /\ ret' = IF found.panics THEN NoRet ELSE [op |-> op, value |-> value]

\* LayeredNavigationContext::layer; the height of the layer stands for the
\* reference returned
LayerAnswer(found) ==
    Answer("layer", found, IF found.value = None THEN None ELSE Some(found.value[1].key))
LayeredLayer(layer) ==
    /\ pc = "idle"
    /\ call' = [op |-> "layer", layer |-> layer]
    /\ LayerAnswer(Layer(tree, layer))
    /\ UNCHANGED <<faces, tree, portals, pending, open, closed, backtraces, path>>

\* LayeredNavigationContext::locate
LocateAnswer(found, point) ==
    Answer("locate", found,
           IF found.value = None THEN None
           ELSE Some(TreeLocate(found.value[1].tree, point)))
LayeredLocate(layer, point) ==
    /\ pc = "idle"
    /\ call' = [op |-> "locate", layer |-> layer, point |-> point]
    /\ LocateAnswer(Layer(tree, layer), point)
    /\ UNCHANGED <<faces, tree, portals, pending, open, closed, backtraces, path>>

\* LayeredNavigationContext::node
NodeAnswer(found, index) ==
    Answer("node", found,
           IF found.value = None THEN None ELSE TreeNode(found.value[1].tree, index))
LayeredNode(layer, index) ==
    /\ pc = "idle"
    /\ call' = [op |-> "node", layer |-> layer, index |-> index]
    /\ NodeAnswer(Layer(tree, layer), index)
    /\ UNCHANGED <<faces, tree, portals, pending, open, closed, backtraces, path>>

\* astar on the tree and the portals of the layer bound
LayeredEnter(bound, q, handed) ==
    /\ call' = q
    /\ portals' = bound.portals
    /\ Moved(Entered(Some(bound.tree), Search, q, handed))

\* find_path_inc from the return of self.layer(layer) on; `?` returns None
LayeredSearch(op, found, start, end, h, agent_radius, buffer) ==
    IF found.panics \/ found.value = None
    THEN /\ call' = Asking(None, op, start, end, h, agent_radius, buffer)
         /\ Answer(op, found, IF op = "find_path" THEN buffer ELSE None)
         /\ UNCHANGED <<portals, open, closed, backtraces>>
    ELSE LayeredEnter(found.value[1],
                      Asking(Some(found.value[1].tree), op, start, end, h, agent_radius,
                             buffer),
                      buffer)

\* LayeredNavigationContext::find_path_inc
LayeredFindPathInc(layer, start, end, h, agent_radius) ==
    /\ pc = "idle"
    /\ LayeredSearch("find_path_inc", Layer(tree, layer), start, end, h, agent_radius, path)
    /\ (Layer(tree, layer).panics \/ Layer(tree, layer).value = None) => path' = path
    /\ UNCHANGED <<faces, tree, pending>>

\* LayeredNavigationContext::find_path: let mut path = None
LayeredFindPath(layer, start, end, h, agent_radius) ==
    /\ pc = "idle"
    /\ LayeredSearch("find_path", Layer(tree, layer), start, end, h, agent_radius, None)
    /\ (Layer(tree, layer).panics \/ Layer(tree, layer).value = None) => path' = None
    /\ UNCHANGED <<faces, tree, pending>>

NextLayered ==
    \/ LayeredNew
    \/ \E layer \in LayerValues : LayeredLayer(layer)
    \/ \E layer \in LayerValues, point \in LayerPoints : LayeredLocate(layer, point)
    \/ \E layer \in LayerValues, index \in 0..3 : LayeredNode(layer, index)
    \/ \E layer \in LayerValues, start \in LayerPoints, end \in LayerPoints, h \in Heuristics :
          LayeredFindPathInc(layer, start, end, h, Zero(FALSE))
    \/ \E layer \in LayerValues, start \in LayerPoints, end \in LayerPoints, h \in Heuristics :
          LayeredFindPath(layer, start, end, h, Zero(FALSE))
    \/ AstarStep
    \/ Return

SpecLayered == InitLayered /\ [][NextLayered]_vars

----------------------------------------------------------------------------
(* A caller that keeps one buffer over its find_path_inc calls and works   *)
(* on it in between: Path::push, append, clear, drain and the mutable      *)
(* slice of DerefMut                                                       *)

\* the waypoints a caller builds by WayPoint::new and pushes or writes
PushedWayPoints == { WayPoint(At(9, 9), NullIndex, None) }

\* the buffers a caller appends
AppendedPaths == { <<WayPoint(At(9, 1), NullIndex, None)>> }

\* the waypoints of a caller
CallerWayPoints ==
    PushedWayPoints \cup UNION { { other[i] : i \in 1..Len(other) } : other \in AppendedPaths }

\* the most waypoints of its own a caller has in the buffer
MaxOwnPoints == 1

\* the waypoints of the buffer that the caller built
OwnPoints(p) == Cardinality({ i \in 1..Len(p) : p[i] \in CallerWayPoints })

\* the ranges handed to drain, start..end
DrainRanges == { <<0, 1>> }

\* the caller works on the buffer between two queries; the locals of a
\* query are gone by then
Edit(edited, panics) ==
    /\ pc = "idle"
    /\ path # None
    /\ path' = Some(edited)
    /\ pc' = IF panics THEN "panic" ELSE "idle"
    /\ UNCHANGED <<faces, tree, portals, pending, call, open, closed, backtraces, ret>>

\* Path::push
CallerPush(value) ==
    /\ path # None
    /\ OwnPoints(path[1]) < MaxOwnPoints
    /\ Edit(Append(path[1], value), FALSE)

\* Path::append: the points of other moved behind those of self
CallerAppend(other) ==
    /\ path # None
    /\ OwnPoints(path[1]) + Len(other) <= MaxOwnPoints
    /\ Edit(path[1] \o other, FALSE)

\* Path::clear
CallerClear == path # None /\ Edit(PathClear(path[1]), FALSE)

\* Path::drain(start..end) with the iterator dropped: the points of the range
\* are taken out; SmallVec::drain asserts start <= end and end <= len
CallerDrain(start, end) ==
    /\ path # None
    /\ IF start <= end /\ end <= Len(path[1])
       THEN Edit(SubSeq(path[1], 1, start) \o SubSeq(path[1], end + 1, Len(path[1])), FALSE)
       ELSE Edit(path[1], TRUE)

\* DerefMut: path[index] = value through the mutable slice; the index is
\* checked
CallerSet(index, value) ==
    /\ path # None
    /\ OwnPoints(path[1]) < MaxOwnPoints
    /\ IF index < Len(path[1])
       THEN Edit([path[1] EXCEPT ![index + 1] = value], FALSE)
       ELSE Edit(path[1], TRUE)

\* the ends of the caller's queries
CallerQueries == { At(5, 1), At(5, 7), At(3, 3), At(7, 3) }

NextCaller ==
    \/ New
    \/ Push
    \/ \E start \in CallerQueries, end \in CallerQueries, h \in Heuristics, r \in Radii :
          FindPathInc(start, end, h, r)
    \/ AstarStep
    \/ Return
    \/ \E value \in PushedWayPoints : CallerPush(value)
    \/ \E other \in AppendedPaths : CallerAppend(other)
    \/ CallerClear
    \/ \E range \in DrainRanges : CallerDrain(range[1], range[2])
    \/ \E value \in PushedWayPoints : CallerSet(0, value)

SpecCaller == Init /\ [][NextCaller]_vars

----------------------------------------------------------------------------
(* Queries past the end of a wide portal: the opening between the first    *)
(* box and the right bound, which an agent of radius 1.0 can cross         *)

CornerPoints == { AtRatio(19, 2, 2), AtRatio(19, 7, 2), At(7, 3), At(5, 1) }

NextCorner ==
    \/ New
    \/ Push
    \/ \E start \in CornerPoints, end \in CornerPoints, h \in Heuristics, r \in Radii :
          FindPath(start, end, h, r)
    \/ \E start \in CornerPoints, end \in CornerPoints, h \in Heuristics, r \in Radii :
          FindPathInc(start, end, h, r)
    \/ AstarStep
    \/ Return

SpecCorner == Init /\ [][NextCorner]_vars

----------------------------------------------------------------------------
(* The portal graph *)

\* every PortalRef of the store
AllRefs(ps) ==
    UNION { { ps.inner[k][i] : i \in 1..Len(ps.inner[k]) } : k \in DOMAIN ps.inner }

\* the leaves one more portal leads to
Onward(leaves, refs) == leaves \cup { r.dst : r \in { x \in refs : x.src \in leaves } }

RECURSIVE ReachFrom(_, _)
ReachFrom(leaves, refs) ==
    IF Onward(leaves, refs) = leaves THEN leaves ELSE ReachFrom(Onward(leaves, refs), refs)

\* some sequence of portals leads from leaf a to leaf b
Connected(ps, a, b) == b \in ReachFrom({a}, AllRefs(ps))

Returned(op) == pc = "returned" /\ call.op = op

\* what is left of the portal's face with both ends moved inwards by radius
\* is not shorter than twice the radius
Passable(ps, r, radius) ==
    ~Lt(Distance(ApplyMargin(PortalFace(ps, r), radius)[2],
                 ApplyMargin(PortalFace(ps, r), radius)[1]),
        Add(radius, radius))

\* some sequence of passable portals leads from leaf a to leaf b
ConnectedFor(ps, a, b, radius) ==
    b \in ReachFrom({a}, { r \in AllRefs(ps) : Passable(ps, r, radius) })

----------------------------------------------------------------------------
(* Construction and location on slanted, nested and far-away faces *)

\* a wall of slope 3/4 and a face ending within TOLERANCE of its line
Grazing == << Wall(At(1, 0), At(9, 6)), Wall(AtRatio(3, 1, 2), At(5, 0)) >>

\* a wall of slope 4/3 at the origin and a face crossing its line far away
Far == << Wall(At(0, 0), At(3, 4)), Wall(At(-3000000, -3000000), At(-2000000, -3000000)) >>

\* a long slanted wall; below it a short wall, a wall nearly parallel to the
\* short one and crossing its line, and a wall on the far side of that one
Nest ==
    << Wall(At(40, 0), At(0, 10)),
       Wall(AtRatio(0, 975, 100), AtRatio(100, 975, 100)),
       Wall(AtRatio(0, 978, 100), AtRatio(150, 962, 100)),
       Wall(AtRatio(600, 9630, 1000), AtRatio(1350, 9745, 1000)) >>

\* two walls crossing in their middles
CrossedWalls == << Wall(At(0, 2), At(4, 2)), Wall(At(2, 0), At(2, 4)) >>

BuildScenes == { Grazing, Far, Nest, CrossedWalls, SealedWall, TwoBoxes, Diamond, Slanted }

BuildPoints ==
    { At(5, 1), At(3, 3), AtRatio(13, 7, 2), At(7, 5), At(0, 9), At(2, 3), At(6, 2),
      At(-1, -1), At(9, 9), AtRatio(5, 97, 10), AtRatio(80, 965, 100),
      At(1000000, -1000000), At(-3000000, 2000000), Vec2(NaN, Zero(FALSE)) }

InitBuild ==
    /\ faces \in BuildScenes
    /\ tree = None
    /\ portals = NewPortals
    /\ pending = <<>>
    /\ pc = "new"
    /\ call = NoCall
    /\ open = {}
    /\ closed = {}
    /\ backtraces = <<>>
    /\ path = None
    /\ ret = NoRet

NextBuild ==
    \/ New
    \/ Push
    \/ \E point \in BuildPoints : Locate(point)
    \/ Return

SpecBuild == InitBuild /\ [][NextBuild]_vars
----------------------------------------------------------------------------
(* Properties *)

\* C1 as claimed: find_path returns None exactly when a tree exists and no
\* sequence of portals of the store connects the leaf of start to the leaf of
\* end
C1_NoneIffNoPortalRoute ==
    Returned("find_path") =>
        (ret.value = None <=>
            (tree # None /\ ~Connected(portals, call.start_node, call.end_node)))

\* C1 amended: find_path returns None exactly when a tree exists and no
\* sequence of portals that the agent radius lets through connects the two
\* leaves, a portal being let through unless its face with both ends moved
\* inwards by the radius is shorter than twice the radius.  The portals are
\* those of generate_portals, whose splits are modelled from the specification
C1_NoneIffNoPassableRoute ==
    Returned("find_path") =>
        (ret.value = None <=>
            (tree # None /\
             ~ConnectedFor(portals, call.start_node, call.end_node, call.agent_radius)))

\* C1 witness: find_path answered None although portals connect the leaves
C1_Witness ==
    /\ Returned("find_path")
    /\ tree # None
    /\ ret.value = None
    /\ call.start_node # call.end_node
    /\ Connected(portals, call.start_node, call.end_node)

\* a query that handed back a path
ReturnedPath ==
    /\ pc = "returned"
    /\ call.op \in {"find_path", "find_path_inc"}
    /\ ret.value # None

\* C2: every path returned by find_path or find_path_inc starts with the
\* waypoint (start, leaf of start, no portal), ends with the waypoint (end,
\* leaf of end, no portal), and every waypoint strictly between the two
\* carries the portal crossed to reach it
C2_PathEnds ==
    ReturnedPath =>
        LET p == ret.value[1]
        IN  /\ Len(p) >= 2
            /\ p[1] = WayPoint(call.start, call.start_node, None)
            /\ p[Len(p)] = WayPoint(call.end, call.end_node, None)
            /\ \A i \in 2..(Len(p) - 1) : p[i].portal # None

\* C3: built from an empty face set, find_path and find_path_inc hand back a
\* path of exactly two waypoints, the first at start and the second at end
C3_EmptySceneStraight ==
    (faces = <<>> /\ pc = "returned" /\ call.op \in {"find_path", "find_path_inc"}) =>
        /\ ret.value # None
        /\ Len(ret.value[1]) = 2
        /\ ret.value[1][1].point = call.start
        /\ ret.value[1][2].point = call.end

\* C3 witness: find_path_inc answered in the empty scene for two distinct points
C3_Witness ==
    /\ faces = <<>>
    /\ Returned("find_path_inc")
    /\ call.start # call.end
    /\ ret.value # None

\* the root node of the context's tree
RootNode == tree[1].nodes[tree[1].root]

\* C4: in the scene of the two coincident opposite faces (0,0)-(10,0) and
\* (10,0)-(0,0) the root is double_planar and find_path from (5,-1) to (5,1)
\* returns None
C4_SealedWall ==
    (faces = SealedWall /\ tree # None) =>
        /\ RootNode.double_planar
        /\ (Returned("find_path") /\ call.start = At(5, -1) /\ call.end = At(5, 1))
              => ret.value = None

\* C5: in every returned path a waypoint with a portal is reached from the
\* leaf of the waypoint before it (the portal's src) and lies in the portal's
\* dst; a waypoint without a portal lies in the leaf of the waypoint before it
C5_OnePortalPerStep ==
    ReturnedPath =>
        LET p == ret.value[1]
        IN  \A i \in 1..(Len(p) - 1) :
                IF p[i + 1].portal # None
                THEN /\ p[i + 1].portal[1].src = p[i].node
                     /\ p[i + 1].portal[1].dst = p[i + 1].node
                ELSE p[i].node = p[i + 1].node

\* the positions of leaf r.dst's list holding a PortalRef back to leaf a with
\* the face of r, a PortalRef of leaf a
Returns(ps, a, r) ==
    { j \in 1..Len(PortalsGet(ps, r.dst)) :
        PortalsGet(ps, r.dst)[j].dst = a /\ PortalsGet(ps, r.dst)[j].face = r.face }

\* those of them with r.normal == -r'.normal
Mirrors(ps, a, r) ==
    { j \in Returns(ps, a, r) : VEq(r.normal, VNeg(PortalsGet(ps, r.dst)[j].normal)) }

HasNormal(r) == ~IsNaN(r.normal.x) /\ ~IsNaN(r.normal.y)

\* the keys the store names: those holding a list and the dst of every
\* PortalRef
NamedKeys(ps) == (DOMAIN ps.inner) \cup { r.dst : r \in AllRefs(ps) }

\* no slot is named under two versions
OneVersionEach(ps) ==
    \A a \in NamedKeys(ps) : \A b \in NamedKeys(ps) : KeySlot(a) = KeySlot(b) => a = b

----------------------------------------------------------------------------
(* Construction, location and clipping in f32 *)

\* the nodes of the subtree under index
RECURSIVE Subtree(_, _)
Subtree(nodes, index) ==
    IF index = NullIndex THEN {}
    ELSE {index} \cup Subtree(nodes, nodes[index].front) \cup Subtree(nodes, nodes[index].back)

\* the faces held in the subtree under index: each node's face and the slice
\* its from_faces call received (split pieces among them)
SubtreeFaces(nodes, index) ==
    UNION { {nodes[d].face} \cup { nodes[d].input[i] : i \in 1..Len(nodes[d].input) } :
            d \in Subtree(nodes, index) }

\* the tree NavigationContext::new was given back
Built == pc \notin {"new", "panic"} /\ tree # None

\* the faces under the front child of N lie in front of or on the plane
\* through N.origin, those under the back child behind or on it
Partitions(nodes, N) ==
    /\ \A F \in SubtreeFaces(nodes, N.front) :
          SideOf(F, N.origin, N.normal) \in {"Front", "Coplanar"}
    /\ \A F \in SubtreeFaces(nodes, N.back) :
          SideOf(F, N.origin, N.normal) \in {"Back", "Coplanar"}

\* C8 as stated: for every node N of a built tree, every face of the subtree
\* under N.front is Front or Coplanar of the plane through N.origin and every
\* face of the subtree under N.back is Back or Coplanar, split pieces
\* included.  Violated: from_faces classifies against the splitter's first
\* vertex, and in f32 the plane through it is not the plane through the
\* midpoint
C8_TreePartition ==
    Built => \A n \in 1..Len(tree[1].nodes) : Partitions(tree[1].nodes, tree[1].nodes[n])

\* the child locate descends to at node for point when it goes to the back
\* for d < 0 alone; no child for a d that is not a number
ChosenBySign(node, d) ==
    IF Ge(d, Zero(FALSE)) THEN node.front
    ELSE IF Lt(d, Zero(FALSE)) THEN node.back ELSE NullIndex

\* the child locate descends to at node for point: the front child for
\* d >= 0, the back child for every other d
ChosenOrBack(node, d) == IF Ge(d, Zero(FALSE)) THEN node.front ELSE node.back

\* (point - origin) . normal at node
PlaneDistance(node, point) == Dot(VSub(point, node.origin), node.normal)

\* the child chosen at node under one rule or the other
Chosen(node, d, by_sign) ==
    IF by_sign THEN ChosenBySign(node, d) ELSE ChosenOrBack(node, d)

\* index lies on the path walked from the root for point under the rule
RECURSIVE OnLocatePath(_, _, _, _, _)
OnLocatePath(nodes, root, index, point, by_sign) ==
    \/ index = root
    \/ \E parent \in 1..Len(nodes) :
          /\ nodes[parent].depth < nodes[index].depth
          /\ Chosen(nodes[parent], PlaneDistance(nodes[parent], point), by_sign) = index
          /\ OnLocatePath(nodes, root, parent, point, by_sign)

\* every descent of locate goes one level down, so the loop ends
DescentBounded(nodes) ==
    \A n \in 1..Len(nodes) : \A c \in {nodes[n].front, nodes[n].back} \ {NullIndex} :
       c \in 1..Len(nodes) /\ nodes[c].depth = nodes[n].depth + 1

\* s is within TOLERANCE of zero
NearZero(s) == Lt(Abs(s), TOLERANCE)

\* the payload found is what the walk by the sign of d gives for point, and
\* point + depth lies on the plane of the node found, d being the distance
\* of point from that plane
LocatedBySign(t, point, found, node, d) ==
    /\ OnLocatePath(t.nodes, t.root, found.index, point, TRUE)
    /\ ChosenBySign(node, d) = NullIndex
    /\ found.covered <=> Lt(d, Zero(FALSE))
    /\ found.covered => NearZero(PlaneDistance(node, VAdd(point, found.depth)))
    /\ ~found.covered => found.depth = ZERO

NearDistance == FromInt(1024)

\* the payload found is what the walk gives that goes to the back for every
\* d that is not >= 0; the depth is -normal * d in f32, which brings a point
\* less than NearDistance away onto the plane within TOLERANCE and is not a
\* number when d is none
LocatedOrBack(t, point, found, node, d) ==
    /\ OnLocatePath(t.nodes, t.root, found.index, point, FALSE)
    /\ ChosenOrBack(node, d) = NullIndex
    /\ found.covered <=> ~Ge(d, Zero(FALSE))
    /\ found.covered => found.depth = VMul(VNeg(node.normal), d)
    /\ (found.covered /\ Lt(Abs(d), NearDistance)) =>
          NearZero(PlaneDistance(node, VAdd(point, found.depth)))
    /\ (found.covered /\ IsNaN(d)) => IsNaN(found.depth.x) /\ IsNaN(found.depth.y)
    /\ ~found.covered => found.depth = ZERO

SplitSidesRight(node, split) ==
    /\ SideOf(split.face, Head(node.input).vertices[1], node.normal) = "Intersecting"
    /\ SplitAsserts(split.face, split.a, split.b, Head(node.input).vertices[1], node.normal)

\* every split recorded in the nodes left a front half and a back half
SplitsRight(nodes) ==
    \A n \in 1..Len(nodes) : \A k \in 1..Len(nodes[n].splits) :
       SplitSidesRight(nodes[n], nodes[n].splits[k])

Unqueried == tree # None /\ (pc = "extend" \/ (pc = "idle" /\ call = NoCall))

\* the handles on one side of node n: n itself when the child is absent,
\* the subtree of the child otherwise
SideHandles(nodes, n, child) ==
    IF child = NullIndex THEN {n} ELSE Subtree(nodes, child)

\* the sub-face c.val clipped for node c.node leads from the front side of
\* the node to its back side
FrontToBack(nodes, c) ==
    /\ c.val.src \in SideHandles(nodes, c.node, nodes[c.node].front)
    /\ c.val.dst \in SideHandles(nodes, c.node, nodes[c.node].back)

\* every sub-face of the clipped history leads from front to back
AllFrontToBack(nodes, clipped) ==
    \A k \in 1..Len(clipped) : FrontToBack(nodes, clipped[k])

\* C25 as stated: every sub-face returned by the clip of node N's candidate
\* segment has for src N itself when N has no front child and a node of the
\* subtree of N.front otherwise, and for dst N itself when N has no back
\* child and a node of the subtree of N.back otherwise.  Violated: a
\* candidate coplanar to a node below that has a back child alone is handed
\* on with root_side Back, and the leaf it lands on under the front child
\* is written to dst
C25_SrcFrontDstBack ==
    Unqueried => AllFrontToBack(tree[1].nodes, TreeGeneratePortals(tree[1]).clipped)
----------------------------------------------------------------------------
(* Portals, double planes, empty trees and the search loop *)

\* C7: no ClippedFace that generate_portals hands to push has src = dst, so
\* the assertion of push holds, and no stored PortalRef has src = dst
C7_NoSelfPortal ==
    /\ \A i \in 1..Len(pending) : ~PushPanics(pending[i])
    /\ \A r \in AllRefs(portals) : r.src # r.dst

\* C7 witness: the portals of a tree with several leaves are all stored
C7_Witness ==
    /\ pc = "idle"
    /\ tree # None
    /\ Len(portals.faces) >= 2

\* some face the node's from_faces call received after the splitter lies in
\* the splitter's plane with a normal against the node's
HasOpposedCoplanar(N) ==
    \E i \in 2..Len(N.input) :
        /\ SideOf(N.input[i], N.input[1].vertices[1], N.input[1].normal) = "Coplanar"
        /\ Lt(Dot(N.input[i].normal, N.normal), Zero(FALSE))

\* C9: a node of a built tree is double_planar exactly when some input face
\* classified Coplanar with its splitter has a normal whose dot product with
\* the node's normal is negative
C9_DoublePlanar ==
    Built =>
        \A n \in 1..Len(tree[1].nodes) :
            tree[1].nodes[n].double_planar <=> HasOpposedCoplanar(tree[1].nodes[n])

\* C9 witness: a built tree with a double_planar node
C9_Witness ==
    /\ Built
    /\ \E n \in 1..Len(tree[1].nodes) : tree[1].nodes[n].double_planar

\* the sides of the faces the node's from_faces call received after the
\* splitter
InputSides(N) ==
    { SideOf(N.input[i], N.input[1].vertices[1], N.input[1].normal) : i \in 2..Len(N.input) }

\* a child of N is absent exactly when no face went to its list
ChildIffFaces(N, sides) ==
    /\ N.front = NullIndex <=> sides \cap {"Front", "Intersecting"} = {}
    /\ N.back = NullIndex <=> sides \cap {"Back", "Intersecting"} = {}

\* C10: the tree is absent exactly when the face list is empty, locate
\* returns None exactly when the context was built from an empty face set, and
\* inside a tree a child is absent exactly when from_faces got no face for it
C10_NoneIffEmpty ==
    /\ pc \notin {"new", "panic"} => (tree = None <=> faces = <<>>)
    /\ Returned("locate") => (ret.value = None <=> faces = <<>>)
    /\ Built =>
          \A n \in 1..Len(tree[1].nodes) :
              ChildIffFaces(tree[1].nodes[n], InputSides(tree[1].nodes[n]))

\* C10 witness: locate answered with a leaf in a scene of a single face
C10_Witness ==
    /\ Returned("locate")
    /\ Len(faces) = 1
    /\ ret.value # None

\* C11: in a run of astar no leaf is expanded twice: no assertion of the loop
\* fails, an expansion adds one new leaf to the closed set, every entry it
\* pushes is for a leaf outside the closed set, and a turn that expands
\* nothing only takes one entry off the heap
C11_NoReexpansion ==
    [][pc = "astar" =>
          /\ pc' # "panic"
          /\ closed # closed' =>
                /\ closed \subseteq closed'
                /\ Cardinality(closed') = Cardinality(closed) + 1
          /\ \A b \in open' \ open : b.node \notin closed'
          /\ (pc' = "astar" /\ closed' = closed) =>
                /\ backtraces' = backtraces
                /\ open' \subseteq open
                /\ Cardinality(open') = Cardinality(open) - 1]_vars

\* C11 witness: the entry about to be popped is for a leaf already closed
C11_Witness ==
    /\ pc = "astar"
    /\ \E b \in Lowest(open) : b.node \in closed

\* C12: astar terminates: every search that has started ends, after finitely
\* many pops, with the end leaf popped (Some) or the heap empty (None),
\* whichever heuristic is used
C12_Terminates == (pc = "astar") ~> (pc = "returned")

\* C12 witness: a search under the manhattan heuristic, which overestimates,
\* has ended after expanding three leaves or more
C12_Witness ==
    /\ pc = "returned"
    /\ call.op \in {"find_path", "find_path_inc"}
    /\ call.heuristic = "manhattan"
    /\ Cardinality(closed) >= 3
----------------------------------------------------------------------------
(* Two constructions compared *)

\* both constructions have come to their end
TwinDone == \A run \in 1..2 : pc[run] \in {"idle", "panic"}

TwinsApart ==
    /\ TwinDone
    /\ call.op = "new_shuffle"
    /\ call.given[1] # call.given[2]
    /\ tree[1] # tree[2]
----------------------------------------------------------------------------
(* Queries *)

\* C14: once construction is over, no step of locate, find_path or
\* find_path_inc, in any order, changes the tree (nodes, root, bounds) or the
\* portal store (faces, per-leaf references); only the locals of the call and
\* the path buffer change
C14_QueriesFrame ==
    [][(pc \in {"idle", "astar", "returned"}) =>
          (tree' = tree /\ portals' = portals /\ faces' = faces /\ pending' = pending)]_vars

\* C14 witness: a find_path_inc has returned a path of three waypoints or
\* more over a tree with portals
C14_Witness ==
    /\ Returned("find_path_inc")
    /\ ret.value # None
    /\ Len(ret.value[1]) >= 3
    /\ tree # None
    /\ portals.faces # <<>>

\* C15: find_path_inc clears and rewrites the buffer it is handed: when the
\* search finds a path, whatever the buffer held (None, an empty path, the path
\* of an earlier query), the waypoints left in the buffer, which the call
\* returns, are those find_path builds from its fresh buffer at the same pop
C15_IncEqualsFindPath ==
    [][(pc = "astar" /\ call.op = "find_path_inc" /\ pc' = "returned"
            /\ ret'.value # None) =>
          /\ path' = ret'.value
          /\ \E current \in Lowest(open) :
                /\ current.node = call.end_node
                /\ ret'.value = Some(FoundPath(portals, None, call.end, current,
                                               backtraces, call.agent_radius))]_vars

\* C15 witness: a find_path_inc handed the path of an earlier query, with a
\* waypoint of the caller behind it, has returned another path
C15_Witness ==
    /\ Returned("find_path_inc")
    /\ ret.value # None
    /\ call.buffer # None
    /\ Len(call.buffer[1]) >= 3
    /\ OwnPoints(call.buffer[1]) > 0
    /\ call.buffer # ret.value
    /\ Len(ret.value[1]) >= 3
----------------------------------------------------------------------------
(* The path after backtrace *)

\* the Euclidean length of the path from waypoint k on added to acc, each
\* leg and each sum in f32
RECURSIVE PathLengthFrom(_, _, _)
PathLengthFrom(waypoints, k, acc) ==
    IF k >= Len(waypoints) THEN acc
    ELSE Having(acc,
                PathLengthFrom(waypoints, k + 1,
                               Add(acc, Distance(waypoints[k].point, waypoints[k + 1].point))))

PathLength(waypoints) == PathLengthFrom(waypoints, 1, Zero(FALSE))

\* the path backtrace built for the search that has just returned, and the
\* same path after shorten
PathBacktraced == Backtrace(<<>>, call.end, call.end_node, backtraces)
PathShortened == Shorten(portals, PathBacktraced, 1, call.agent_radius).path

\* the length of after is a number not above the length of before
NoLonger(before, after) == Le(PathLength(after), PathLength(before))

Shifted(p, q) == \E i \in 1..Len(p) : Gt(Distance(p[i].point, q[i].point), TOLERANCE)

\* C17: shorten and resolve_clip are idempotent: applied again, with the same
\* agent radius, to the path each has left, neither moves a waypoint by more
\* than TOLERANCE
C17_Idempotent ==
    (ReturnedPath /\ tree # None) =>
        /\ ~Shifted(PathShortened, Shorten(portals, PathShortened, 1, call.agent_radius).path)
        /\ ~Shifted(ret.value[1], ResolveClip(portals, ret.value[1], 1, call.agent_radius))

\* the vertices of the faces handed to the constructor
InputVertices == UNION { {faces[i].vertices[1], faces[i].vertices[2]} : i \in 1..Len(faces) }

\* C18 as stated: the bounding rectangle (l, r) of a built tree strictly
\* contains every input vertex
C18_StrictBounds ==
    Built => \A v \in InputVertices :
                /\ Lt(tree[1].l.x, v.x) /\ Lt(v.x, tree[1].r.x)
                /\ Lt(tree[1].l.y, v.y) /\ Lt(v.y, tree[1].r.y)

\* C18 amended: the bounding rectangle (l, r) of a built tree contains every
\* input vertex, l.x <= v.x <= r.x and l.y <= v.y <= r.y, and is the least
\* such rectangle: each of its four bounds is the coordinate of some vertex
C18_TightBounds ==
    Built =>
        /\ \A v \in InputVertices :
              /\ Le(tree[1].l.x, v.x) /\ Le(v.x, tree[1].r.x)
              /\ Le(tree[1].l.y, v.y) /\ Le(v.y, tree[1].r.y)
        /\ \E v \in InputVertices : v.x = tree[1].l.x
        /\ \E v \in InputVertices : v.x = tree[1].r.x
        /\ \E v \in InputVertices : v.y = tree[1].l.y
        /\ \E v \in InputVertices : v.y = tree[1].r.y

\* C18 witness: a tree built of the two boxes and outer walls, with vertices
\* inside the rectangle and vertices on its border
C18_Witness ==
    /\ Built
    /\ faces = TwoBoxes
    /\ tree[1].l = At(0, 0)
    /\ tree[1].r = At(10, 8)
    /\ \E v \in InputVertices : Lt(tree[1].l.x, v.x) /\ Lt(v.x, tree[1].r.x)
----------------------------------------------------------------------------
(* The context read back from its text *)

\* C19: the context read back from its serialized form answers find_path as
\* the context that was written does: the two searches, put the same start,
\* end, heuristic and agent radius, return together, and with the same
\* waypoint sequence (points, leaves and portals) or both with None
C19_RoundTrip ==
    /\ pc[2] # "panic"
    /\ (pc[1] = "returned" \/ pc[2] = "returned") =>
          /\ pc = <<"returned", "returned">>
          /\ ret[2].value = ret[1].value

\* C19 witness: both contexts have returned a path of three waypoints or
\* more in the scene whose corners lie at tenths
C19_Witness ==
    /\ pc = <<"returned", "returned">>
    /\ faces = TenthsBox
    /\ ret[1].value # None
    /\ Len(ret[1].value[1]) >= 3
    /\ ret[2].value = ret[1].value
----------------------------------------------------------------------------
(* One expansion of the search *)

\* the search parameters of the running call, as the closure sees them
Query == [end |-> call.end, heuristic |-> call.heuristic,
          agent_radius |-> call.agent_radius, closed |-> closed]

\* the candidate the closure forms for the i-th portal of current
FormedAt(ps, refs, i, current, q) ==
    BacktraceNew(refs[i],
                 CrossingPoint(ps, refs[i], current, q.end, q.heuristic, q.agent_radius),
                 current,
                 Heuristic(q.heuristic,
                           CrossingPoint(ps, refs[i], current, q.end, q.heuristic,
                                         q.agent_radius),
                           q.end))

\* the portals of current for which a candidate is formed
Taken(ps, refs, current, q) ==
    { i \in 1..Len(refs) :
        ~SkipPortal(refs[i], ApplyMargin(PortalFace(ps, refs[i]), q.agent_radius),
                    current, q.closed, q.agent_radius) }

\* the candidates formed for the portals of current from the i-th on, in the
\* order of the portals
RECURSIVE CandidatesFrom(_, _, _, _, _)
CandidatesFrom(ps, refs, i, current, q) ==
    IF i > Len(refs) THEN <<>>
    ELSE (IF i \in Taken(ps, refs, current, q)
          THEN <<FormedAt(ps, refs, i, current, q)>> ELSE <<>>)
         \o CandidatesFrom(ps, refs, i + 1, current, q)

\* this step is the expansion of current
ExpandsFrom(current) ==
    /\ pc = "astar"
    /\ current \in Lowest(open)
    /\ current.node \notin closed
    /\ current.node # call.end_node
    /\ closed' = closed \cup {current.node}
    /\ current \notin open'

\* the candidate c takes the place of the entry known: under the rule as
\* stated unless known has the strictly lower f, under the rule of the match
\* when known has the strictly greater f
Replaces(known, c, as_stated) ==
    IF as_stated THEN ~Lt(known.total_cost, c.total_cost)
    ELSE Gt(known.total_cost, c.total_cost)

\* the map and the queue after the candidate c under the rule
Offered(st, c, as_stated) ==
    IF c.node \notin DOMAIN st.backtraces \/ Replaces(st.backtraces[c.node], c, as_stated)
    THEN [backtraces |-> [k \in DOMAIN st.backtraces \cup {c.node} |->
                            IF k = c.node THEN c ELSE st.backtraces[k]],
          open |-> st.open \cup {c}]
    ELSE st

\* the map and the queue after the candidates from the i-th on, one after
\* the other
RECURSIVE OfferedAll(_, _, _, _)
OfferedAll(st, cands, i, as_stated) ==
    IF i > Len(cands) THEN st
    ELSE OfferedAll(Offered(st, cands[i], as_stated), cands, i + 1, as_stated)

\* the step leaves the map and the queue of st
LeftAs(st) == backtraces' = st.backtraces /\ open' = st.open

\* the expansion of current treats each of its candidates, in turn, by the
\* rule
RelaxedBy(current, as_stated) ==
    LeftAs(OfferedAll([backtraces |-> backtraces, open |-> open \ {current}],
                      CandidatesFrom(portals, PortalsGet(portals, current.node), 1,
                                     current, Query),
                      1, as_stated))

\* C20 as stated: a candidate is skipped only if the map holds an entry for
\* its leaf with strictly lower f; with no entry, or an entry of greater or
\* equal f, the entry is overwritten and the candidate pushed
C20_SkippedOnlyIfLower ==
    [][\A current \in open : ExpandsFrom(current) => RelaxedBy(current, TRUE)]_vars

\* C20 amended: a candidate is stored and pushed when the map holds no entry
\* for its leaf or an entry of strictly greater f; an entry of lower or equal
\* f stays and the candidate is dropped
C20_StoredOnlyIfLower ==
    [][\A current \in open : ExpandsFrom(current) => RelaxedBy(current, FALSE)]_vars

\* C20 witness: a leaf n has been expanded and its candidate for an open leaf
\* met an entry of equal f: the entry is still the older one
C20_Witness ==
    /\ pc = "astar"
    /\ \E n \in closed :
         \E i \in Taken(portals, PortalsGet(portals, n), backtraces[n], Query) :
            /\ PortalsGet(portals, n)[i].dst \in DOMAIN backtraces
            /\ backtraces[PortalsGet(portals, n)[i].dst].total_cost =
                  FormedAt(portals, PortalsGet(portals, n), i, backtraces[n], Query).total_cost
            /\ backtraces[PortalsGet(portals, n)[i].dst] #
                  FormedAt(portals, PortalsGet(portals, n), i, backtraces[n], Query)

\* the length of the portal's face less agent_radius at either end
ShrunkLength(ps, ref, agent_radius) ==
    Sub(FaceLength(PortalFace(ps, ref)), Add(agent_radius, agent_radius))

\* the distance between the ends of the portal's face, each moved towards
\* the other by agent_radius
MovedEndsApart(face, agent_radius) ==
    Distance(VAdd(face.vertices[1], VMul(FaceDir(face), agent_radius)),
             VSub(face.vertices[2], VMul(FaceDir(face), agent_radius)))

\* the portal is skipped: as stated when its shrunk length is <= 0, else
\* when its moved ends are less than 2 * agent_radius apart; and in either
\* case when its dst is closed or is the leaf of current
Skipped(ps, ref, current, q, as_stated) ==
    \/ IF as_stated
       THEN Le(ShrunkLength(ps, ref, q.agent_radius), Zero(FALSE))
       ELSE Lt(MovedEndsApart(PortalFace(ps, ref), q.agent_radius),
               Add(q.agent_radius, q.agent_radius))
    \/ ref.dst \in q.closed
    \/ ref.dst = current.node

\* the candidates for the portals of current from the i-th on that are not
\* skipped
RECURSIVE CandidatesUnless(_, _, _, _, _, _)
CandidatesUnless(ps, refs, i, current, q, as_stated) ==
    IF i > Len(refs) THEN <<>>
    ELSE (IF Skipped(ps, refs[i], current, q, as_stated)
          THEN <<>> ELSE <<FormedAt(ps, refs, i, current, q)>>)
         \o CandidatesUnless(ps, refs, i + 1, current, q, as_stated)

\* the expansion of current leaves the map and the queue that the candidates
\* of the portals not skipped give, offered in turn
SkipsBy(current, as_stated) ==
    LeftAs(OfferedAll([backtraces |-> backtraces, open |-> open \ {current}],
                      CandidatesUnless(portals, PortalsGet(portals, current.node), 1,
                                       current, Query, as_stated),
                      1, FALSE))

\* C21 as stated: a portal of cur is skipped exactly when its length less
\* agent_radius at both ends is <= 0, or its dst is closed, or its dst is
\* cur.node; every other portal yields a candidate
C21_SkipIffNonPositive ==
    [][\A current \in open : ExpandsFrom(current) => SkipsBy(current, TRUE)]_vars

\* C21 amended: a portal of cur is skipped exactly when the face with both
\* ends moved inwards by agent_radius is shorter than 2 * agent_radius, or
\* its dst is closed, or its dst is cur.node; every other portal yields a
\* candidate
C21_SkipIffNarrow ==
    [][\A current \in open : ExpandsFrom(current) => SkipsBy(current, FALSE)]_vars

\* C21 witness: a leaf has been expanded that has a portal to an open leaf
\* whose shrunk length is above 0 and whose moved ends are less than
\* 2 * agent_radius apart, and no backtrace leads through that portal
C21_Witness ==
    /\ pc = "astar"
    /\ \E n \in closed : \E i \in 1..Len(PortalsGet(portals, n)) :
          /\ PortalsGet(portals, n)[i].dst \notin closed
          /\ Gt(ShrunkLength(portals, PortalsGet(portals, n)[i], call.agent_radius),
                Zero(FALSE))
          /\ Lt(MovedEndsApart(PortalFace(portals, PortalsGet(portals, n)[i]),
                               call.agent_radius),
                Add(call.agent_radius, call.agent_radius))
          /\ \A k \in DOMAIN backtraces :
                backtraces[k].portal # Some(PortalsGet(portals, n)[i])
----------------------------------------------------------------------------
(* Portal generation, construction depth, the store, layers, backtraces *)

\* the input faces of a node lying on its plane: the splitter and the faces
\* that classified as Coplanar against it
WallsOn(node) ==
    { node.input[k] : k \in { j \in 1..Len(node.input) :
        j = 1 \/ SideOf(node.input[j], Head(node.input).vertices[1], node.normal)
                    = "Coplanar" } }

\* the three conditions on a sub-face clipped for node
Walkable(val, node) ==
    /\ val.src # val.dst
    /\ val.sides = <<"Front", "Front">>
    /\ \A w \in WallsOn(node) : ~Overlaps(w, val.face)

\* the sub-faces clipped for the nodes of the tree, in the order of
\* generate_portals, that satisfy keep
Kept(nodes, clipped, keep(_, _)) ==
    SelectSeq(clipped, LAMBDA c : keep(c.val, nodes[c.node]))

\* the faces generate_portals has handed over: those stored, then those
\* still to be pushed
Emitted == portals.faces \o [i \in 1..Len(pending) |-> pending[i].face]

\* C24 as stated: the sub-faces emitted as portals are exactly the clipped
\* sub-faces with src # dst, both side tags Front and no overlap with a wall
\* face on the node's plane
C24_EmitIffWalkable ==
    Unqueried =>
       Emitted = [i \in 1..Len(Kept(tree[1].nodes, TreeGeneratePortals(tree[1]).clipped, Walkable)) |->
                    Kept(tree[1].nodes, TreeGeneratePortals(tree[1]).clipped, Walkable)[i].val.face]

\* the slice a call of from_faces hands to either recursive call is shorter
\* than the slice it received
SlicesShrink(nodes) ==
    \A n \in 1..Len(nodes) : \A c \in {nodes[n].front, nodes[n].back} \ {NullIndex} :
       Len(nodes[c].input) < Len(nodes[n].input)

\* C26: from_faces returns on every face list of the scenes; each recursive
\* call received strictly fewer faces than its caller, the root is at depth
\* 0, each child one below its parent, and the depth of every node is less
\* than the number of input faces
C26_DepthBelowFaceCount ==
    tree # None =>
       /\ tree[1].nodes[tree[1].root].input = faces
       /\ tree[1].nodes[tree[1].root].depth = 0
       /\ SlicesShrink(tree[1].nodes)
       /\ DescentBounded(tree[1].nodes)
       /\ \A n \in 1..Len(tree[1].nodes) : tree[1].nodes[n].depth < Len(faces)

\* C26 witness: a tree four levels deep has been built in which a face was
\* split, its halves going to both recursive calls
C26_Witness ==
    /\ tree # None
    /\ \E n \in 1..Len(tree[1].nodes) : tree[1].nodes[n].depth >= 3
    /\ \E n \in 1..Len(tree[1].nodes) :
          /\ tree[1].nodes[n].splits # <<>>
          /\ tree[1].nodes[n].front # NullIndex
          /\ tree[1].nodes[n].back # NullIndex

\* every PortalRef Portals::get hands out for a leaf names that leaf as its
\* src and a face of the store
KeyedBySrc(ps) ==
    \A L \in DOMAIN ps.inner : \A i \in 1..Len(PortalsGet(ps, L)) :
       /\ PortalsGet(ps, L)[i].src = L
       /\ PortalsGet(ps, L)[i].face \in 0..(Len(ps.faces) - 1)

\* C27: after any sequence of pushes, those that panicked included, every
\* PortalRef returned by get(L) has src = L and a face index below the
\* number of stored faces, which is what assert_eq!(portal.src(),
\* current.node) in astar compares
C27_RefsKeyedBySrc == KeyedBySrc(portals)

\* C27 witness: three pushes have returned and one leaf holds a PortalRef of
\* each of them, as src of one and as dst of another
C27_Witness ==
    /\ pc = "store"
    /\ \E L \in DOMAIN portals.inner :
          /\ Len(PortalsGet(portals, L)) >= 3
          /\ \E i, j \in 1..Len(PortalsGet(portals, L)) :
                /\ VEq(PortalsGet(portals, L)[i].normal,
                       VNeg(PortalFace(portals, PortalsGet(portals, L)[i]).normal))
                /\ VEq(PortalsGet(portals, L)[j].normal,
                       PortalFace(portals, PortalsGet(portals, L)[j]).normal)
                /\ ~IsZero(PortalsGet(portals, L)[j].normal.y)

\* the calls of a LayeredNavigationContext that look a layer up
LayeredCalls == {"layer", "locate", "node", "find_path", "find_path_inc"}

\* C28: a LayeredNavigationContext built from zero faces has no layer and
\* answers layer, locate, node, find_path and find_path_inc with None for
\* every layer value; no call panics
C28_NoLayersNone ==
    (faces = <<>> /\ pc # "new") =>
       /\ tree = <<>>
       /\ pc # "panic"
       /\ (pc = "returned" /\ call.op \in LayeredCalls) => ret.value = None

\* the prev chain of backtraces followed from leaf k for at most fuel
\* entries: TRUE when it ends at the entry without prev, which is the one of
\* leaf start, and passes no leaf of seen again
RECURSIVE ChainEnds(_, _, _, _, _)
ChainEnds(bt, k, start, seen, fuel) ==
    /\ fuel > 0
    /\ k \in DOMAIN bt
    /\ k \notin seen
    /\ IF bt[k].prev = None THEN k = start
       ELSE ChainEnds(bt, bt[k].prev[1], start, seen \cup {k}, fuel - 1)

\* every entry of backtraces is kept under its own leaf, has no prev exactly
\* when it is the entry of the start leaf, and otherwise a closed leaf as prev
PrevsClosed ==
    \A k \in DOMAIN backtraces :
       /\ backtraces[k].node = k
       /\ (backtraces[k].prev = None) <=> (k = call.start_node)
       /\ backtraces[k].prev # None => backtraces[k].prev[1] \in closed

\* the loop of backtrace started at any leaf of the map comes to its end,
\* at the start leaf, after no more turns than the map has entries
ChainsEnd ==
    \A k \in DOMAIN backtraces :
       ChainEnds(backtraces, k, call.start_node, {}, Cardinality(DOMAIN backtraces))

\* a turn of the loop of astar leaves the entries of the closed leaves alone
ClosedKept ==
    (pc = "astar") =>
       \A k \in closed : k \in DOMAIN backtraces' /\ backtraces'[k] = backtraces[k]

\* C29: during astar the backtrace entry of a closed leaf is never written
\* again, every entry's prev is a closed leaf and is None only for the start
\* leaf; so the prev chain from the end leaf (from every leaf of the map) is
\* acyclic and ends at the start leaf, and the loop of backtrace terminates
C29_BacktraceChain ==
    /\ [](pc \in {"astar", "returned"} /\ backtraces # <<>> => PrevsClosed /\ ChainsEnd)
    /\ [][ClosedKept]_vars

\* a search has popped the end leaf after closing three leaves or more, the
\* end leaf having been reached from a leaf other than the start leaf
C29_Witness ==
    /\ Returned("find_path")
    /\ ret.value # None
    /\ Cardinality(closed) >= 3
    /\ call.end_node \in DOMAIN backtraces
    /\ backtraces[call.end_node].prev # None
    /\ backtraces[call.end_node].prev[1] # call.start_node

\* a step of a running find_path_inc that writes to the caller's buffer is
\* the one that returns the path found, and the buffer then holds that path
WrittenOnSuccess ==
    (pc = "astar" /\ call.op = "find_path_inc" /\ path' # path) =>
       /\ pc' = "returned"
       /\ ret'.value # None
       /\ path' = ret'.value

\* C30: when astar finds no path on a scene with faces, find_path_inc
\* returns None and the caller's buffer is as it was handed in, a path of an
\* earlier successful query included; the buffer is written only on success
C30_BufferKeptOnFailure ==
    /\ []((Returned("find_path_inc") /\ tree # None /\ ret.value = None)
             => path = call.buffer)
    /\ []((pc = "astar" /\ call.op = "find_path_inc") => path = call.buffer)
    /\ [][WrittenOnSuccess]_vars

\* find_path_inc has found no path on a scene with faces while the buffer
\* holds the waypoints of an earlier query and one the caller pushed
C30_Witness ==
    /\ Returned("find_path_inc")
    /\ tree # None
    /\ call.start_node # call.end_node
    /\ ret.value = None
    /\ path # None
    /\ Len(path[1]) >= 3
    /\ OwnPoints(path[1]) > 0
    /\ path[1][1] \notin CallerWayPoints

====
